---- MODULE Spec2Model ----
(***************************************************************************)
(* CloudSentinel backend: the zero-trust access gates and their            *)
(* orchestrator (access_control.py), the JSON-backed policy store and      *)
(* audit log (database.py) and the endpoints that write them (app.py).     *)
(*                                                                         *)
(* Python strings that the code inspects character by character (times of  *)
(* day handed to strptime, origins tested with startswith) are sequences   *)
(* of one-character strings.  Lists are sequences, dicts are functions     *)
(* whose DOMAIN is the set of keys.  Human-readable reasons (f-strings)    *)
(* are records holding the fixed text and the interpolated values.         *)
(***************************************************************************)
EXTENDS Integers, Sequences, FiniteSets, TLC

VARIABLES
    files,      \* database/files.json : file_id -> policy (a dict)
    audit_log,  \* database/audit_log.json : list of log entries, newest last
    recorded,   \* history: every entry ever handed to log_event, in call order
    result,     \* the last operation called, its arguments and what it returned
    calls,      \* thread -> the call the thread is in: its position and locals
    torn,       \* audit_log.json is open for writing: truncated, not yet a
                \* complete JSON document (json.load on it raises)
    files_torn  \* the same for files.json

vars == <<files, audit_log, recorded, result, calls, torn, files_torn>>

(***************************************************************************)
(* Python values                                                           *)
(***************************************************************************)
\* None where a dict is expected, and None where a str is expected
None == [py |-> "None"]

NoneStr == "<None>"

\* None where the program expects a string it reads character by character
\* (a JSON null stored as a window bound)
TimeNone == <<NoneStr>>

In(x, list) == \E i \in DOMAIN list : list[i] = x

Digits == {"0", "1", "2", "3", "4", "5", "6", "7", "8", "9"}

DigitVal(c) ==
    CASE c = "0" -> 0 [] c = "1" -> 1 [] c = "2" -> 2 [] c = "3" -> 3
      [] c = "4" -> 4 [] c = "5" -> 5 [] c = "6" -> 6 [] c = "7" -> 7
      [] c = "8" -> 8 [] c = "9" -> 9

startswith(s, prefix) ==
    /\ Len(s) >= Len(prefix)
    /\ SubSeq(s, 1, Len(prefix)) = prefix

\* datetime.time(hour, minute, second) as seconds since midnight
time(hour, minute, second) == (hour * 60 + minute) * 60 + second

\* time.strftime('%H:%M:%S')
strftime_HMS(t) == <<t \div 3600, (t \div 60) % 60, t % 60>>

\* datetime.strptime(s, '%H:%M').time(): the directive %H matches
\* 2[0-3]|[0-1]\d|\d and %M matches [0-5]\d|\d, the whole string has to be
\* consumed; anything else raises ValueError.  None raises TypeError.
strptime_HM(s) ==
    LET n == Len(s)
        two(i) == i + 1 <= n /\ s[i] \in Digits /\ s[i + 1] \in Digits
        val2(i) == 10 * DigitVal(s[i]) + DigitVal(s[i + 1])
        hlen == IF two(1) /\ val2(1) <= 23 /\ n >= 3 /\ s[3] = ":" THEN 2
                ELSE IF n >= 2 /\ s[1] \in Digits /\ s[2] = ":" THEN 1
                ELSE 0
        mpos == hlen + 2
        mlen == IF hlen = 0 THEN 0
                ELSE IF two(mpos) /\ val2(mpos) <= 59 THEN 2
                ELSE IF mpos <= n /\ s[mpos] \in Digits THEN 1
                ELSE 0
        hour == IF hlen = 2 THEN val2(1) ELSE DigitVal(s[1])
        minute == IF mlen = 2 THEN val2(mpos) ELSE DigitVal(s[mpos])
    IN  IF s = TimeNone
        THEN [ok |-> FALSE, error |-> "TypeError"]
        ELSE IF hlen # 0 /\ mlen # 0 /\ hlen + 1 + mlen = n
        THEN [ok |-> TRUE, time |-> time(hour, minute, 0)]
        ELSE [ok |-> FALSE, error |-> "ValueError"]

(***************************************************************************)
(* Values the operations are called with                                   *)
(***************************************************************************)
Users == {"alice", "bob"}

FileIds == {"f1", "f2"}

T0900 == <<"0", "9", ":", "0", "0">>
T1800 == <<"1", "8", ":", "0", "0">>
T2200 == <<"2", "2", ":", "0", "0">>
T0600 == <<"0", "6", ":", "0", "0">>
T900  == <<"9", ":", "0", "0">>
T2500 == <<"2", "5", ":", "0", "0">>
T6pm  == <<"6", "p", "m">>

\* access_times values: {'start': ..., 'end': ...}
Windows ==
    { [start |-> T0900, end |-> T1800],
      [start |-> T900,  end |-> T1800],
      [start |-> T1800, end |-> T1800],
      [start |-> T2200, end |-> T0600],
      [start |-> T0900, end |-> T2500],
      [start |-> T6pm,  end |-> T1800],
      [start |-> TimeNone, end |-> T1800] }

RegionLists == { <<>>, <<"US">>, <<"IN", "US">> }

UserLists == { <<"alice">>, <<"bob">>, <<"alice", "bob">> }

\* the values datetime.now().time() takes in the calls
ClockHours == {6, 9, 10, 18, 22}
ClockMinutes == {0, 1}
ClockSeconds == {0, 30}
Clock == { time(h, m, s) : h \in ClockHours, m \in ClockMinutes, s \in ClockSeconds }

IP_loopback  == <<"1", "2", "7", ".", "0", ".", "0", ".", "1">>
IP_localhost == <<"l", "o", "c", "a", "l", "h", "o", "s", "t">>
IP_192_168   == <<"1", "9", "2", ".", "1", "6", "8", ".", "1", ".", "5">>
IP_10        == <<"1", "0", ".", "0", ".", "0", ".", "5">>
IP_172_16    == <<"1", "7", "2", ".", "1", "6", ".", "0", ".", "9">>
IP_public    == <<"2", "0", "3", ".", "0", ".", "1", "1", "3", ".", "5">>

Origins == {IP_loopback, IP_localhost, IP_192_168, IP_10, IP_172_16, IP_public}

\* What requests.get(..., timeout=3) followed by response.json() can do:
\* raise (timeout, connection error), or return a response with a status code
\* and a body that is JSON or not.
NetOutcomes ==
    { [kind |-> "raise", error |-> "Timeout"],
      [kind |-> "raise", error |-> "ConnectionError"],
      [kind |-> "response", status_code |-> 500, body |-> [invalid_json |-> TRUE]],
      [kind |-> "response", status_code |-> 200, body |-> [invalid_json |-> TRUE]],
      [kind |-> "response", status_code |-> 200, body |-> [message |-> "no status"]],
      [kind |-> "response", status_code |-> 200, body |-> [status |-> "fail"]],
      [kind |-> "response", status_code |-> 200,
       body |-> [status |-> "success", countryCode |-> "US", country |-> "United States"]],
      [kind |-> "response", status_code |-> 200,
       body |-> [status |-> "success", countryCode |-> "FR", country |-> "France"]],
      [kind |-> "response", status_code |-> 200, body |-> [status |-> "success"]] }

(***************************************************************************)
(* database.py : reads of the policy store                                 *)
(***************************************************************************)
\* _read_json(filepath): json.load raises on a truncated or partial file and
\* the except branch returns the empty value ([] for the audit log, {} for
\* the policy store; both are <<>> here)
read_json(content, is_torn) ==
    [failed |-> is_torn, data |-> IF is_torn THEN <<>> ELSE content]

\* Database.get_file_metadata: files.get(file_id) on what _read_json returns
get_file_metadata(file_id) ==
    LET fs == read_json(files, files_torn).data
    IN  IF file_id \in DOMAIN fs THEN fs[file_id] ELSE None

(***************************************************************************)
(* access_control.py : the three gates                                     *)
(***************************************************************************)
FileNotFound == [msg |-> "File not found"]

\* mutant: a resource without a policy is open to everyone
check_user_permission_missing_open(username, file_id) ==
    LET file_meta == get_file_metadata(file_id)
    IN  IF file_meta = None
        THEN [allowed |-> TRUE, reason |-> [msg |-> "No policy"],
              check |-> "user_permission"]
        ELSE IF ~In(username, file_meta.allowed_users)
        THEN [allowed |-> FALSE,
              reason |-> [msg |-> "User not authorized to access this file",
                          username |-> username],
              check |-> "user_permission"]
        ELSE [allowed |-> TRUE,
              reason |-> [msg |-> "User has permission"],
              check |-> "user_permission"]

\* mutant: the owner passes whatever the allow-list holds
check_user_permission_owner_passes(username, file_id) ==
    LET file_meta == get_file_metadata(file_id)
    IN  IF file_meta = None
        THEN [allowed |-> FALSE, reason |-> FileNotFound, check |-> "file_exists"]
        ELSE IF username # file_meta.owner /\ ~In(username, file_meta.allowed_users)
        THEN [allowed |-> FALSE,
              reason |-> [msg |-> "User not authorized to access this file",
                          username |-> username],
              check |-> "user_permission"]
        ELSE [allowed |-> TRUE,
              reason |-> [msg |-> "User has permission"],
              check |-> "user_permission"]

check_user_permission(username, file_id) ==
    LET file_meta == get_file_metadata(file_id)
    IN  IF file_meta = None
        THEN [allowed |-> FALSE, reason |-> FileNotFound, check |-> "file_exists"]
        ELSE IF ~In(username, file_meta.allowed_users)
        THEN [allowed |-> FALSE,
              reason |-> [msg |-> "User not authorized to access this file",
                          username |-> username],
              check |-> "user_permission"]
        ELSE [allowed |-> TRUE,
              reason |-> [msg |-> "User has permission"],
              check |-> "user_permission"]

\* mutant: the upper bound of the window compared with < instead of <=
check_time_based_access_exclusive_end(file_id, now) ==
    LET file_meta == get_file_metadata(file_id)
        start_time == strptime_HM(file_meta.access_start_time)
        end_time == strptime_HM(file_meta.access_end_time)
    IN  IF file_meta = None
        THEN [allowed |-> FALSE, reason |-> FileNotFound, check |-> "time_based"]
        ELSE IF ~start_time.ok \/ ~end_time.ok
        THEN [allowed |-> FALSE,
              reason |-> [msg |-> "Invalid time format in file metadata",
                          error |-> IF ~start_time.ok THEN start_time.error
                                    ELSE end_time.error],
              check |-> "time_based"]
        ELSE [allowed |-> (start_time.time <= now /\ now < end_time.time),
              reason |-> [msg |-> "Access allowed between",
                          start |-> file_meta.access_start_time,
                          end |-> file_meta.access_end_time],
              current_time |-> strftime_HMS(now),
              check |-> "time_based"]

\* mutant: a bound that does not parse is taken as no bound (00:00, 23:59:59)
check_time_based_access_unparsed_open(file_id, now) ==
    LET file_meta == get_file_metadata(file_id)
        start_time == strptime_HM(file_meta.access_start_time)
        end_time == strptime_HM(file_meta.access_end_time)
        lower == IF start_time.ok THEN start_time.time ELSE time(0, 0, 0)
        upper == IF end_time.ok THEN end_time.time ELSE time(23, 59, 59)
    IN  IF file_meta = None
        THEN [allowed |-> FALSE, reason |-> FileNotFound, check |-> "time_based"]
        ELSE [allowed |-> (lower <= now /\ now <= upper),
              reason |-> [msg |-> "Access allowed between",
                          start |-> file_meta.access_start_time,
                          end |-> file_meta.access_end_time],
              current_time |-> strftime_HMS(now),
              check |-> "time_based"]

\* mutant: a window whose end is earlier than its start runs over midnight
check_time_based_access_overnight(file_id, now) ==
    LET file_meta == get_file_metadata(file_id)
        start_time == strptime_HM(file_meta.access_start_time)
        end_time == strptime_HM(file_meta.access_end_time)
    IN  IF file_meta = None
        THEN [allowed |-> FALSE, reason |-> FileNotFound, check |-> "time_based"]
        ELSE IF ~start_time.ok \/ ~end_time.ok
        THEN [allowed |-> FALSE,
              reason |-> [msg |-> "Invalid time format in file metadata",
                          error |-> IF ~start_time.ok THEN start_time.error
                                    ELSE end_time.error],
              check |-> "time_based"]
        ELSE [allowed |-> IF start_time.time <= end_time.time
                          THEN start_time.time <= now /\ now <= end_time.time
                          ELSE start_time.time <= now \/ now <= end_time.time,
              reason |-> [msg |-> "Access allowed between",
                          start |-> file_meta.access_start_time,
                          end |-> file_meta.access_end_time],
              current_time |-> strftime_HMS(now),
              check |-> "time_based"]

\* mutant: the time gate passes a resource whose policy is gone
check_time_based_access_missing_open(file_id, now) ==
    LET file_meta == get_file_metadata(file_id)
        start_time == strptime_HM(file_meta.access_start_time)
        end_time == strptime_HM(file_meta.access_end_time)
    IN  IF file_meta = None
        THEN [allowed |-> TRUE, reason |-> [msg |-> "No policy"],
              check |-> "time_based"]
        ELSE IF ~start_time.ok \/ ~end_time.ok
        THEN [allowed |-> FALSE,
              reason |-> [msg |-> "Invalid time format in file metadata",
                          error |-> IF ~start_time.ok THEN start_time.error
                                    ELSE end_time.error],
              check |-> "time_based"]
        ELSE IF start_time.time <= now /\ now <= end_time.time
        THEN [allowed |-> TRUE,
              reason |-> [msg |-> "Access allowed between",
                          start |-> file_meta.access_start_time,
                          end |-> file_meta.access_end_time],
              current_time |-> strftime_HMS(now),
              check |-> "time_based"]
        ELSE [allowed |-> FALSE,
              reason |-> [msg |-> "Access only allowed between",
                          start |-> file_meta.access_start_time,
                          end |-> file_meta.access_end_time],
              current_time |-> strftime_HMS(now),
              check |-> "time_based"]

\* now stands for datetime.now().time(), read after the policy lookup
check_time_based_access(file_id, now) ==
    LET file_meta == get_file_metadata(file_id)
        start_time == strptime_HM(file_meta.access_start_time)
        end_time == strptime_HM(file_meta.access_end_time)
    IN  IF file_meta = None
        THEN [allowed |-> FALSE, reason |-> FileNotFound, check |-> "time_based"]
        ELSE IF ~start_time.ok \/ ~end_time.ok
        THEN [allowed |-> FALSE,
              reason |-> [msg |-> "Invalid time format in file metadata",
                          error |-> IF ~start_time.ok THEN start_time.error
                                    ELSE end_time.error],
              check |-> "time_based"]
        ELSE IF start_time.time <= now /\ now <= end_time.time
        THEN [allowed |-> TRUE,
              reason |-> [msg |-> "Access allowed between",
                          start |-> file_meta.access_start_time,
                          end |-> file_meta.access_end_time],
              current_time |-> strftime_HMS(now),
              check |-> "time_based"]
        ELSE [allowed |-> FALSE,
              reason |-> [msg |-> "Access only allowed between",
                          start |-> file_meta.access_start_time,
                          end |-> file_meta.access_end_time],
              current_time |-> strftime_HMS(now),
              check |-> "time_based"]

\* mutant: the loopback names are not recognised as local
is_local_origin_no_loopback(ip_address) ==
    startswith(ip_address, <<"1", "9", "2", ".", "1", "6", "8", ".">>)

\* The branch of get_location_from_ip that answers without a request
is_local_origin(ip_address) ==
    \/ ip_address \in {IP_loopback, IP_localhost}
    \/ startswith(ip_address, <<"1", "9", "2", ".", "1", "6", "8", ".">>)

\* dict.get(key, default)
dict_get(d, key, default) == IF key \in DOMAIN d THEN d[key] ELSE default

\* mutant: a lookup that does not answer success is tried a second time
get_location_from_ip_retries(ip_address, net) ==
    IF is_local_origin(ip_address)
    THEN [out |-> [success |-> TRUE, country_code |-> "IN", country |-> "India",
                   city |-> "Local", ip |-> ip_address, is_local |-> TRUE],
          http |-> <<>>]
    ELSE IF /\ net.kind = "response"
            /\ net.status_code = 200
            /\ "status" \in DOMAIN net.body
            /\ net.body.status = "success"
    THEN [http |-> <<ip_address>>,
          out |-> [success |-> TRUE,
                   country_code |-> dict_get(net.body, "countryCode", "UNKNOWN"),
                   country |-> dict_get(net.body, "country", "Unknown"),
                   city |-> dict_get(net.body, "city", "Unknown"),
                   region |-> dict_get(net.body, "regionName", "Unknown"),
                   ip |-> ip_address, is_local |-> FALSE]]
    ELSE [http |-> <<ip_address, ip_address>>,
          out |-> [success |-> FALSE,
                   reason |-> [msg |-> "Failed to get location data"],
                   ip |-> ip_address]]

\* net is what the one requests.get of this call does.  The value is
\* [out |-> the dict returned, http |-> the origins looked up externally].
get_location_from_ip(ip_address, net) ==
    IF is_local_origin(ip_address)
    THEN [out |-> [success |-> TRUE, country_code |-> "IN", country |-> "India",
                   city |-> "Local", ip |-> ip_address, is_local |-> TRUE],
          http |-> <<>>]
    ELSE [http |-> <<ip_address>>,
          out |->
            IF net.kind = "raise"
            THEN [success |-> FALSE,
                  reason |-> [msg |-> "Location lookup failed", error |-> net.error],
                  ip |-> ip_address]
            ELSE IF net.status_code = 200 /\ "invalid_json" \in DOMAIN net.body
            THEN [success |-> FALSE,
                  reason |-> [msg |-> "Location lookup failed", error |-> "JSONDecodeError"],
                  ip |-> ip_address]
            ELSE IF net.status_code = 200 /\ "status" \notin DOMAIN net.body
            THEN [success |-> FALSE,
                  reason |-> [msg |-> "Location lookup failed", error |-> "KeyError"],
                  ip |-> ip_address]
            ELSE IF net.status_code = 200 /\ net.body.status = "success"
            THEN [success |-> TRUE,
                  country_code |-> dict_get(net.body, "countryCode", "UNKNOWN"),
                  country |-> dict_get(net.body, "country", "Unknown"),
                  city |-> dict_get(net.body, "city", "Unknown"),
                  region |-> dict_get(net.body, "regionName", "Unknown"),
                  ip |-> ip_address, is_local |-> FALSE]
            ELSE [success |-> FALSE,
                  reason |-> [msg |-> "Failed to get location data"],
                  ip |-> ip_address]]

\* mutant: a failed lookup lets the request through (fail open)
check_location_based_access_fail_open(file_id, ip_address, net) ==
    LET file_meta == get_file_metadata(file_id)
        lookup == get_location_from_ip(ip_address, net)
        location == lookup.out
        allowed_regions == dict_get(file_meta, "allowed_regions", <<>>)
    IN  IF file_meta = None
        THEN [out |-> [allowed |-> FALSE, reason |-> FileNotFound,
                       check |-> "location_based"],
              http |-> <<>>]
        ELSE [http |-> lookup.http,
              out |->
                IF ~location.success
                THEN [allowed |-> TRUE,
                      reason |-> dict_get(location, "reason",
                                          [msg |-> "Unable to verify location"]),
                      check |-> "location_based"]
                ELSE [allowed |-> In(location.country_code, allowed_regions),
                      reason |-> [msg |-> "Access from",
                                  country |-> location.country,
                                  country_code |-> location.country_code],
                      location |-> location,
                      check |-> "location_based"]]

\* mutant: an empty allow-list of regions restricts nothing
check_location_based_access_empty_is_any(file_id, ip_address, net) ==
    LET file_meta == get_file_metadata(file_id)
        lookup == get_location_from_ip(ip_address, net)
        location == lookup.out
        allowed_regions == dict_get(file_meta, "allowed_regions", <<>>)
    IN  IF file_meta = None
        THEN [out |-> [allowed |-> FALSE, reason |-> FileNotFound,
                       check |-> "location_based"],
              http |-> <<>>]
        ELSE [http |-> lookup.http,
              out |->
                IF ~location.success
                THEN [allowed |-> FALSE,
                      reason |-> dict_get(location, "reason",
                                          [msg |-> "Unable to verify location"]),
                      check |-> "location_based"]
                ELSE [allowed |-> \/ allowed_regions = <<>>
                                  \/ In(location.country_code, allowed_regions),
                      reason |-> [msg |-> "Access from",
                                  country |-> location.country,
                                  country_code |-> location.country_code],
                      location |-> location,
                      check |-> "location_based"]]

check_location_based_access(file_id, ip_address, net) ==
    LET file_meta == get_file_metadata(file_id)
        lookup == get_location_from_ip(ip_address, net)
        location == lookup.out
        allowed_regions == dict_get(file_meta, "allowed_regions", <<>>)
    IN  IF file_meta = None
        THEN [out |-> [allowed |-> FALSE, reason |-> FileNotFound,
                       check |-> "location_based"],
              http |-> <<>>]
        ELSE [http |-> lookup.http,
              out |->
                IF ~location.success
                THEN [allowed |-> FALSE,
                      reason |-> dict_get(location, "reason",
                                          [msg |-> "Unable to verify location"]),
                      check |-> "location_based"]
                ELSE IF In(location.country_code, allowed_regions)
                THEN [allowed |-> TRUE,
                      reason |-> [msg |-> "Access allowed from",
                                  country |-> location.country,
                                  country_code |-> location.country_code],
                      location |-> location,
                      check |-> "location_based"]
                ELSE [allowed |-> FALSE,
                      reason |-> [msg |-> "Access denied from",
                                  country |-> location.country,
                                  country_code |-> location.country_code,
                                  allowed_regions |-> allowed_regions],
                      location |-> location,
                      check |-> "location_based"]]

(***************************************************************************)
(* access_control.py : the orchestrator                                    *)
(***************************************************************************)
\* one item of the insertion-ordered dict verification_results['checks']
Check(key, value) == [key |-> key, value |-> value]

\* mutant: no return after a denying identity gate, the time gate still runs
verify_access_no_stop(username, file_id, ip_address, now, net) ==
    LET verification_results ==
            [allowed |-> FALSE, username |-> username, file_id |-> file_id,
             ip_address |-> ip_address, timestamp |-> now, checks |-> <<>>]
        user_check == check_user_permission(username, file_id)
        time_check == check_time_based_access(file_id, now)
        location == check_location_based_access(file_id, ip_address, net)
        location_check == location.out
        checks2 == <<Check("user_permission", user_check),
                     Check("time_based", time_check)>>
        checks3 == Append(checks2, Check("location_based", location_check))
    IN  IF ~time_check.allowed \/ ~user_check.allowed
        THEN [out |-> [checks |-> checks2,
                       denied_reason |-> time_check.reason,
                       failed_check |-> "time_based"] @@ verification_results,
              http |-> <<>>]
        ELSE IF ~location_check.allowed
        THEN [out |-> [checks |-> checks3,
                       denied_reason |-> location_check.reason,
                       failed_check |-> "location_based"] @@ verification_results,
              http |-> location.http]
        ELSE [out |-> [checks |-> checks3,
                       allowed |-> TRUE,
                       message |-> "All Zero-Trust checks passed - Access granted!"]
                      @@ verification_results,
              http |-> location.http]

\* mutant: the result of the time gate is recorded but never tested
verify_access_time_untested(username, file_id, ip_address, now, net) ==
    LET verification_results ==
            [allowed |-> FALSE, username |-> username, file_id |-> file_id,
             ip_address |-> ip_address, timestamp |-> now, checks |-> <<>>]
        user_check == check_user_permission(username, file_id)
        time_check == check_time_based_access(file_id, now)
        location == check_location_based_access(file_id, ip_address, net)
        location_check == location.out
        checks1 == <<Check("user_permission", user_check)>>
        checks3 == <<Check("user_permission", user_check),
                     Check("time_based", time_check),
                     Check("location_based", location_check)>>
    IN  IF ~user_check.allowed
        THEN [out |-> [checks |-> checks1,
                       denied_reason |-> user_check.reason,
                       failed_check |-> "user_permission"] @@ verification_results,
              http |-> <<>>]
        ELSE IF ~location_check.allowed
        THEN [out |-> [checks |-> checks3,
                       denied_reason |-> location_check.reason,
                       failed_check |-> "location_based"] @@ verification_results,
              http |-> location.http]
        ELSE [out |-> [checks |-> checks3,
                       allowed |-> TRUE,
                       message |-> "All Zero-Trust checks passed - Access granted!"]
                      @@ verification_results,
              http |-> location.http]

\* mutant: the origin is resolved before the gates run
verify_access_lookup_first(username, file_id, ip_address, now, net) ==
    LET verification_results ==
            [allowed |-> FALSE, username |-> username, file_id |-> file_id,
             ip_address |-> ip_address, timestamp |-> now, checks |-> <<>>]
        user_check == check_user_permission(username, file_id)
        time_check == check_time_based_access(file_id, now)
        location == check_location_based_access(file_id, ip_address, net)
        location_check == location.out
        lookup == get_location_from_ip(ip_address, net).http
        checks1 == <<Check("user_permission", user_check)>>
        checks2 == Append(checks1, Check("time_based", time_check))
        checks3 == Append(checks2, Check("location_based", location_check))
    IN  IF ~user_check.allowed
        THEN [out |-> [checks |-> checks1,
                       denied_reason |-> user_check.reason,
                       failed_check |-> "user_permission"] @@ verification_results,
              http |-> lookup]
        ELSE IF ~time_check.allowed
        THEN [out |-> [checks |-> checks2,
                       denied_reason |-> time_check.reason,
                       failed_check |-> "time_based"] @@ verification_results,
              http |-> lookup]
        ELSE IF ~location_check.allowed
        THEN [out |-> [checks |-> checks3,
                       denied_reason |-> location_check.reason,
                       failed_check |-> "location_based"] @@ verification_results,
              http |-> lookup]
        ELSE [out |-> [checks |-> checks3,
                       allowed |-> TRUE,
                       message |-> "All Zero-Trust checks passed - Access granted!"]
                      @@ verification_results,
              http |-> lookup]

\* The value is [out |-> verification_results, http |-> external lookups made].
verify_access(username, file_id, ip_address, now, net) ==
    LET verification_results ==
            [allowed |-> FALSE, username |-> username, file_id |-> file_id,
             ip_address |-> ip_address, timestamp |-> now, checks |-> <<>>]
        user_check == check_user_permission(username, file_id)
        time_check == check_time_based_access(file_id, now)
        location == check_location_based_access(file_id, ip_address, net)
        location_check == location.out
        checks1 == <<Check("user_permission", user_check)>>
        checks2 == Append(checks1, Check("time_based", time_check))
        checks3 == Append(checks2, Check("location_based", location_check))
    IN  IF ~user_check.allowed
        THEN [out |-> [checks |-> checks1,
                       denied_reason |-> user_check.reason,
                       failed_check |-> "user_permission"] @@ verification_results,
              http |-> <<>>]
        ELSE IF ~time_check.allowed
        THEN [out |-> [checks |-> checks2,
                       denied_reason |-> time_check.reason,
                       failed_check |-> "time_based"] @@ verification_results,
              http |-> <<>>]
        ELSE IF ~location_check.allowed
        THEN [out |-> [checks |-> checks3,
                       denied_reason |-> location_check.reason,
                       failed_check |-> "location_based"] @@ verification_results,
              http |-> location.http]
        ELSE [out |-> [checks |-> checks3,
                       allowed |-> TRUE,
                       message |-> "All Zero-Trust checks passed - Access granted!"]
                      @@ verification_results,
              http |-> location.http]

(***************************************************************************)
(* The gates and the orchestrator called on a store the program can hold   *)
(***************************************************************************)
NoResult == [op |-> "none"]

\* the threads of the server that handle requests at the same time
Threads == {"t1", "t2"}

\* a thread that is in no call
Idle == [pc |-> "idle"]

\* a policy as save_file_metadata followed by update_file_access leaves it
Policy(owner, allowed_users, window, allowed_regions) ==
    [owner |-> owner,
     original_filename |-> "secret.txt",
     allowed_users |-> allowed_users,
     access_start_time |-> window.start,
     access_end_time |-> window.end,
     allowed_regions |-> allowed_regions]

GateStores ==
    { <<>> } \cup
    { [f \in {"f1"} |-> Policy(o, us, w, rs)] :
        o \in {"alice"}, us \in UserLists, w \in Windows, rs \in RegionLists }

\* files.json holds one of the stores, or was left truncated by a write
\* that did not complete
InitGates ==
    /\ \/ files \in GateStores /\ files_torn = FALSE
       \/ files = <<>> /\ files_torn = TRUE
    /\ audit_log = <<>>
    /\ recorded = <<>>
    /\ result = NoResult
    /\ calls = [t \in Threads |-> Idle]
    /\ torn = FALSE

CheckUserPermission ==
    /\ result = NoResult
    /\ \E username \in Users, file_id \in FileIds :
        /\ result' = [op |-> "check_user_permission", username |-> username,
                      file_id |-> file_id,
                      out |-> check_user_permission(username, file_id)]
        /\ UNCHANGED <<files, audit_log, recorded, calls, torn, files_torn>>

CheckTimeBasedAccess ==
    /\ result = NoResult
    /\ \E file_id \in FileIds, now \in Clock :
        /\ result' = [op |-> "check_time_based_access", file_id |-> file_id,
                      now |-> now,
                      out |-> check_time_based_access(file_id, now)]
        /\ UNCHANGED <<files, audit_log, recorded, calls, torn, files_torn>>

GetLocationFromIp ==
    /\ result = NoResult
    /\ \E ip_address \in Origins, net \in NetOutcomes :
        LET r == get_location_from_ip(ip_address, net)
        IN  /\ result' = [op |-> "get_location_from_ip", ip_address |-> ip_address,
                          net |-> net, out |-> r.out, http |-> r.http]
            /\ UNCHANGED <<files, audit_log, recorded, calls, torn, files_torn>>

CheckLocationBasedAccess ==
    /\ result = NoResult
    /\ \E file_id \in FileIds, ip_address \in Origins, net \in NetOutcomes :
        LET r == check_location_based_access(file_id, ip_address, net)
        IN  /\ result' = [op |-> "check_location_based_access", file_id |-> file_id,
                          ip_address |-> ip_address, net |-> net,
                          out |-> r.out, http |-> r.http]
            /\ UNCHANGED <<files, audit_log, recorded, calls, torn, files_torn>>

\* mutant: the engine writes its verdict to the audit log itself
VerifyAccess_records_verdict ==
    /\ result = NoResult
    /\ \E username \in Users, file_id \in FileIds, ip_address \in Origins,
       now \in Clock, net \in NetOutcomes :
        LET r == verify_access(username, file_id, ip_address, now, net)
        IN  /\ result' = [op |-> "verify_access", username |-> username,
                          file_id |-> file_id, ip_address |-> ip_address,
                          now |-> now, net |-> net,
                          out |-> r.out, http |-> r.http]
            /\ audit_log' = Append(audit_log, [event_type |-> "VERIFY",
                                                username |-> username,
                                                file_id |-> file_id,
                                                success |-> r.out.allowed])
            /\ UNCHANGED <<files, recorded, calls, torn, files_torn>>

VerifyAccess ==
    /\ result = NoResult
    /\ \E username \in Users, file_id \in FileIds, ip_address \in Origins,
       now \in Clock, net \in NetOutcomes :
        LET r == verify_access(username, file_id, ip_address, now, net)
        IN  /\ result' = [op |-> "verify_access", username |-> username,
                          file_id |-> file_id, ip_address |-> ip_address,
                          now |-> now, net |-> net,
                          out |-> r.out, http |-> r.http]
            /\ UNCHANGED <<files, audit_log, recorded, calls, torn, files_torn>>

\* the caller takes the returned value; the next call can start
Return ==
    /\ result # NoResult
    /\ result' = NoResult
    /\ UNCHANGED <<files, audit_log, recorded, calls, torn, files_torn>>

NextGates ==
    \/ Return
    \/ CheckUserPermission
    \/ CheckTimeBasedAccess
    \/ GetLocationFromIp
    \/ CheckLocationBasedAccess
    \/ VerifyAccess

SpecGates == InitGates /\ [][NextGates]_vars

(***************************************************************************)
(* Claims about the gates and the orchestrator (checked under SpecGates)   *)
(***************************************************************************)
IsVerify == result.op = "verify_access"

GateNames == <<"user_permission", "time_based", "location_based">>

\* the time gate denies: windows parse and now lies outside them
OutsideWindow(file_id, now) ==
    /\ file_id \in DOMAIN files
    /\ strptime_HM(files[file_id].access_start_time).ok
    /\ strptime_HM(files[file_id].access_end_time).ok
    /\ ~(/\ strptime_HM(files[file_id].access_start_time).time <= now
         /\ now <= strptime_HM(files[file_id].access_end_time).time)

\* C1: verify_access runs the gates in the order user_permission, time_based,
\* location_based and stops at the first gate that denies: the keys of checks
\* are a prefix of that order, every entry before the last is allowed, the
\* list ends early only on a denying entry; an identity outside the allow-list
\* and outside the time window fails on user_permission with one entry.
C1_GateOrder ==
    IsVerify =>
        LET cs == result.out.checks
        IN  /\ Len(cs) \in 1..3
            /\ \A i \in DOMAIN cs : cs[i].key = GateNames[i]
            /\ \A i \in 1..(Len(cs) - 1) : cs[i].value.allowed
            /\ Len(cs) < 3 => ~cs[Len(cs)].value.allowed
            /\ ~cs[Len(cs)].value.allowed =>
                   result.out.failed_check = GateNames[Len(cs)]
            /\ ( /\ result.file_id \in DOMAIN files
                 /\ ~In(result.username, files[result.file_id].allowed_users)
                 /\ OutsideWindow(result.file_id, result.now) )
               => /\ result.out.failed_check = "user_permission"
                  /\ Len(cs) = 1

C1_Witness ==
    /\ IsVerify
    /\ result.file_id \in DOMAIN files
    /\ ~In(result.username, files[result.file_id].allowed_users)
    /\ OutsideWindow(result.file_id, result.now)
    /\ Len(result.out.checks) = 1
    /\ result.out.failed_check = "user_permission"

\* C2: verify_access returns allowed=true exactly when the three gates, called
\* with the same identity, resource, origin, clock and resolver outcome, each
\* return allowed=true; an allowed verdict holds all three entries, each allowed.
C2_AllowedIffAllGates ==
    IsVerify =>
        /\ result.out.allowed <=>
              ( /\ check_user_permission(result.username, result.file_id).allowed
                /\ check_time_based_access(result.file_id, result.now).allowed
                /\ check_location_based_access(result.file_id, result.ip_address,
                                               result.net).out.allowed )
        /\ result.out.allowed =>
              /\ Len(result.out.checks) = 3
              /\ \A i \in 1..3 : /\ result.out.checks[i].key = GateNames[i]
                                 /\ result.out.checks[i].value.allowed

C2_Witness ==
    /\ IsVerify
    /\ result.out.allowed
    /\ Len(result.out.checks) = 3

\* the resolver, asked about this origin with this network outcome, reports failure
ResolutionFails(ip_address, net) ==
    ~get_location_from_ip(ip_address, net).out.success

\* C4: when the resolver reports failure for the origin, the region gate of an
\* existing policy denies with check location_based and the resolver's reason,
\* whatever the allowed regions; verify_access never allows such a call.
C4_ResolverFailureDenies ==
    /\ ( /\ result.op = "check_location_based_access"
         /\ result.file_id \in DOMAIN files
         /\ ResolutionFails(result.ip_address, result.net) )
       => /\ ~result.out.allowed
          /\ result.out.check = "location_based"
          /\ result.out.reason =
                 get_location_from_ip(result.ip_address, result.net).out.reason
    /\ (IsVerify /\ ResolutionFails(result.ip_address, result.net))
       => ~result.out.allowed

C4_Witness ==
    /\ result.op = "check_location_based_access"
    /\ result.file_id \in DOMAIN files
    /\ files[result.file_id].allowed_regions # <<>>
    /\ result.net.kind = "raise"
    /\ result.http # <<>>
    /\ ~result.out.allowed

\* C5: for a resource id without a policy each gate returns allowed=false, the
\* not-found reason and its own name as check.
C5_NotFoundUniform ==
    ( /\ result.op \in {"check_user_permission", "check_time_based_access",
                        "check_location_based_access"}
      /\ result.file_id \notin DOMAIN files )
    => /\ ~result.out.allowed
       /\ result.out.reason = FileNotFound
       /\ result.out.check =
             (CASE result.op = "check_user_permission" -> "user_permission"
                [] result.op = "check_time_based_access" -> "time_based"
                [] result.op = "check_location_based_access" -> "location_based")

\* C6: a denied verdict carries failed_check and denied_reason, equal to the
\* check and reason of the last entry of checks; an allowed verdict carries
\* neither.
C6_FailedCheckIsGateValue ==
    IsVerify =>
        LET cs == result.out.checks
        IN  IF result.out.allowed
            THEN /\ "failed_check" \notin DOMAIN result.out
                 /\ "denied_reason" \notin DOMAIN result.out
            ELSE /\ "failed_check" \in DOMAIN result.out
                 /\ "denied_reason" \in DOMAIN result.out
                 /\ result.out.failed_check = cs[Len(cs)].value.check
                 /\ result.out.denied_reason = cs[Len(cs)].value.reason

\* the time gate was called on a policy whose window parses, start <= end
TimeGateOnOrderedWindow ==
    /\ result.op = "check_time_based_access"
    /\ result.file_id \in DOMAIN files
    /\ strptime_HM(files[result.file_id].access_start_time).ok
    /\ strptime_HM(files[result.file_id].access_end_time).ok
    /\ strptime_HM(files[result.file_id].access_start_time).time
         <= strptime_HM(files[result.file_id].access_end_time).time

windowStart == strptime_HM(files[result.file_id].access_start_time).time

windowEnd == strptime_HM(files[result.file_id].access_end_time).time

\* the hour:minute a clock value shows, as a time of day
HourMinute(now) == now - (now % 60)

\* C7 as stated: with a parseable window, start <= end, the time gate allows
\* when the time of day is windowStart and when it is windowEnd (the clock
\* shows that hour:minute, whatever its seconds) and denies one minute after
\* windowEnd.
C7_BoundsInclusiveToTheMinute ==
    TimeGateOnOrderedWindow =>
        /\ HourMinute(result.now) = windowStart => result.out.allowed
        /\ HourMinute(result.now) = windowEnd => result.out.allowed
        /\ HourMinute(result.now) = windowEnd + 60 => ~result.out.allowed

\* C7 as amended: the gate allows when the clock reads exactly windowStart or
\* exactly windowEnd (zero seconds), denies at every later instant of the
\* windowEnd minute and one minute after windowEnd.
C7_BoundsInclusiveToTheInstant ==
    TimeGateOnOrderedWindow =>
        /\ result.now = windowStart => result.out.allowed
        /\ result.now = windowEnd => result.out.allowed
        /\ (HourMinute(result.now) = windowEnd /\ result.now > windowEnd)
              => ~result.out.allowed
        /\ HourMinute(result.now) = windowEnd + 60 => ~result.out.allowed

C7_Witness ==
    /\ TimeGateOnOrderedWindow
    /\ windowStart < windowEnd
    /\ result.now = windowEnd
    /\ result.out.allowed

\* the policy of the end-to-end scenario
ScenarioPolicy ==
    Policy("alice", <<"alice">>, [start |-> T0900, end |-> T1800], <<"US">>)

\* verify_access(alice, f1, 127.0.0.1) at 10:00 against the scenario policy
ScenarioCall ==
    /\ IsVerify
    /\ result.file_id = "f1"
    /\ "f1" \in DOMAIN files
    /\ files["f1"] = ScenarioPolicy
    /\ result.username = "alice"
    /\ result.ip_address = IP_loopback
    /\ result.now = time(10, 0, 0)

\* C8 as stated: the scenario call returns allowed=true.
C8_LoopbackPassesUSOnly ==
    ScenarioCall => result.out.allowed

\* C8 as amended: the scenario call passes the identity and time gates and is
\* denied by the region gate, failed_check = location_based, because the
\* loopback origin resolves to the fixed local region IN, not US.
C8_LoopbackDeniedUSOnly ==
    ScenarioCall =>
        /\ ~result.out.allowed
        /\ result.out.failed_check = "location_based"
        /\ Len(result.out.checks) = 3
        /\ result.out.checks[1].value.allowed
        /\ result.out.checks[2].value.allowed
        /\ result.http = <<>>
        /\ "location" \in DOMAIN result.out.checks[3].value
        /\ result.out.checks[3].value.location.is_local
        /\ result.out.checks[3].value.location.country_code = "IN"

C8_Witness ==
    /\ ScenarioCall
    /\ ~result.out.allowed

\* loopback and private-range origins: 127.0.0.1, localhost, 10.x.x.x,
\* 192.168.x.x, 172.16.x.x to 172.31.x.x
IsLoopbackOrPrivate(ip_address) ==
    \/ ip_address \in {IP_loopback, IP_localhost}
    \/ startswith(ip_address, <<"1", "0", ".">>)
    \/ startswith(ip_address, <<"1", "9", "2", ".", "1", "6", "8", ".">>)
    \/ \E d1 \in {"1", "2", "3"}, d2 \in Digits :
          /\ 10 * DigitVal(d1) + DigitVal(d2) \in 16..31
          /\ startswith(ip_address, <<"1", "7", "2", ".", d1, d2, ".">>)

\* C9: for every loopback or private-range origin get_location_from_ip returns
\* success with is_local and the fixed local region, and looks nothing up.
C9_PrivateOriginsAreLocal ==
    ( /\ result.op = "get_location_from_ip"
      /\ IsLoopbackOrPrivate(result.ip_address) )
    => /\ result.out.success
       /\ result.out.is_local
       /\ result.out.country_code = "IN"
       /\ result.http = <<>>

(***************************************************************************)
(* database.py : writes of the policy store.  Each operation reads the     *)
(* whole store, changes it in memory and writes it back; its value is      *)
(* [files |-> the store written, out |-> what the call returns].           *)
(***************************************************************************)
\* d[key] = value on a dict
dict_set(d, key, value) ==
    [k \in DOMAIN d \cup {key} |-> IF k = key THEN value ELSE d[k]]

\* del d[key]
dict_del(d, key) == [k \in DOMAIN d \ {key} |-> d[k]]

DefaultStart == T0900

DefaultEnd == T1800

DefaultRegions == <<"IN", "US", "GB">>

save_file_metadata(fs, file_id, owner, original_filename, metadata) ==
    [files |-> dict_set(fs, file_id,
                 [owner |-> owner,
                  original_filename |-> original_filename,
                  allowed_users |-> <<owner>>,
                  access_start_time |-> dict_get(metadata, "access_start_time", DefaultStart),
                  access_end_time |-> dict_get(metadata, "access_end_time", DefaultEnd),
                  allowed_regions |-> dict_get(metadata, "allowed_regions", DefaultRegions)]),
     out |-> [success |-> TRUE, message |-> "File metadata saved"]]

\* mutant: a field left out of the call is reset to its default
update_file_access_resets_omitted(fs, file_id, given) ==
    IF file_id \notin DOMAIN fs
    THEN [files |-> fs, out |-> [success |-> FALSE, message |-> "File not found"]]
    ELSE IF /\ "access_times" \in DOMAIN given
            /\ {"start", "end"} \ DOMAIN given.access_times # {}
    THEN [files |-> fs, out |-> [raised |-> "KeyError"]]
    ELSE LET p0 == fs[file_id]
             p1 == IF "allowed_users" \in DOMAIN given
                   THEN [p0 EXCEPT !.allowed_users = given.allowed_users] ELSE p0
             p2 == IF "access_times" \in DOMAIN given
                   THEN [p1 EXCEPT !.access_start_time = given.access_times.start,
                                   !.access_end_time = given.access_times.end]
                   ELSE p1
             p3 == IF "allowed_regions" \in DOMAIN given
                   THEN [p2 EXCEPT !.allowed_regions = given.allowed_regions]
                   ELSE [p2 EXCEPT !.allowed_regions = DefaultRegions]
         IN  [files |-> [fs EXCEPT ![file_id] = p3],
              out |-> [success |-> TRUE, message |-> "Access control updated"]]

\* given holds the keyword arguments passed and not None (allowed_users,
\* access_times, allowed_regions); an argument left out or None is no key of
\* it.  access_times without 'start' or 'end' raises KeyError before anything
\* is written.
update_file_access(fs, file_id, given) ==
    IF file_id \notin DOMAIN fs
    THEN [files |-> fs, out |-> [success |-> FALSE, message |-> "File not found"]]
    ELSE IF /\ "access_times" \in DOMAIN given
            /\ {"start", "end"} \ DOMAIN given.access_times # {}
    THEN [files |-> fs, out |-> [raised |-> "KeyError"]]
    ELSE LET p0 == fs[file_id]
             p1 == IF "allowed_users" \in DOMAIN given
                   THEN [p0 EXCEPT !.allowed_users = given.allowed_users] ELSE p0
             p2 == IF "access_times" \in DOMAIN given
                   THEN [p1 EXCEPT !.access_start_time = given.access_times.start,
                                   !.access_end_time = given.access_times.end]
                   ELSE p1
             p3 == IF "allowed_regions" \in DOMAIN given
                   THEN [p2 EXCEPT !.allowed_regions = given.allowed_regions] ELSE p2
         IN  [files |-> [fs EXCEPT ![file_id] = p3],
              out |-> [success |-> TRUE, message |-> "Access control updated"]]

delete_file_metadata(fs, file_id) ==
    IF file_id \notin DOMAIN fs
    THEN [files |-> fs, out |-> [success |-> FALSE, message |-> "File not found"]]
    ELSE [files |-> dict_del(fs, file_id),
          out |-> [success |-> TRUE, message |-> "File metadata deleted"]]

(***************************************************************************)
(* database.py : the audit log                                             *)
(***************************************************************************)
LogCap == 1000

\* the entry log_event builds; timestamp is the instant of the call, here the
\* position of the call among all calls of log_event
log_entry(timestamp, event_type, username, file_id, details, ip_address, success) ==
    [timestamp |-> timestamp, event_type |-> event_type, username |-> username,
     file_id |-> file_id, ip_address |-> ip_address, success |-> success,
     details |-> details]

\* list[-n:] : the last n items for n > 0, the whole list for n = 0 (-0 is 0),
\* the list without its first -n items for n < 0
last_slice(list, n) ==
    IF n = 0 \/ n >= Len(list) THEN list
    ELSE IF n > 0 THEN SubSeq(list, Len(list) - n + 1, Len(list))
    ELSE SubSeq(list, 1 - n, Len(list))

\* list[::-1]
reversed(list) == [i \in 1..Len(list) |-> list[Len(list) - i + 1]]

\* mutant: the trim keeps the first LogCap entries (audit_logs[:1000])
log_event_keeps_oldest(audit_logs, entry) ==
    LET appended == Append(audit_logs, entry)
    IN  IF Len(appended) > LogCap THEN SubSeq(appended, 1, LogCap) ELSE appended

\* mutant: the new entry is put in front (audit_logs.insert(0, log_entry))
log_event_inserts_first(audit_logs, entry) ==
    LET appended == <<entry>> \o audit_logs
    IN  IF Len(appended) > LogCap THEN last_slice(appended, LogCap) ELSE appended

\* the list log_event writes back, given the list it read
log_event(audit_logs, entry) ==
    LET appended == Append(audit_logs, entry)
    IN  IF Len(appended) > LogCap THEN last_slice(appended, LogCap) ELSE appended

\* mutant: an entry passes when it matches one of the provided filters
get_audit_logs_either_filter(audit_logs, username, file_id, limit) ==
    LET by_user == username # NoneStr /\ username # ""
        by_file == file_id # NoneStr /\ file_id # ""
        filtered_logs ==
            SelectSeq(audit_logs,
                      LAMBDA log : \/ ~by_user /\ ~by_file
                                   \/ by_user /\ log.username = username
                                   \/ by_file /\ log.file_id = file_id)
    IN  reversed(last_slice(filtered_logs, limit))

\* a filter that is None or '' is not applied (if username: / if file_id:)
get_audit_logs(audit_logs, username, file_id, limit) ==
    LET by_user == IF username # NoneStr /\ username # ""
                   THEN SelectSeq(audit_logs, LAMBDA log : log.username = username)
                   ELSE audit_logs
        filtered_logs == IF file_id # NoneStr /\ file_id # ""
                         THEN SelectSeq(by_user, LAMBDA log : log.file_id = file_id)
                         ELSE by_user
    IN  reversed(last_slice(filtered_logs, limit))

(***************************************************************************)
(* audit_logger.py : the summary and the report                            *)
(***************************************************************************)
\* summary['event_types'] : event type -> number of logs of that type
event_types(logs) ==
    [t \in {logs[i].event_type : i \in 1..Len(logs)} |->
        Len(SelectSeq(logs, LAMBDA log : log.event_type = t))]

\* mutant: every login attempt is counted as a failed login
get_security_summary_logins_failed(audit_logs, username) ==
    LET logs == get_audit_logs(audit_logs, username, NoneStr, 1000)
    IN  [total_events |-> Len(logs),
         successful_events |-> Len(SelectSeq(logs, LAMBDA log : log.success)),
         failed_events |-> Len(SelectSeq(logs, LAMBDA log : ~log.success)),
         access_denied |-> Len(SelectSeq(logs, LAMBDA log : log.event_type = "ACCESS_DENIED")),
         uploads |-> Len(SelectSeq(logs, LAMBDA log : log.event_type = "FILE_UPLOAD")),
         downloads |-> Len(SelectSeq(logs, LAMBDA log : log.event_type = "FILE_DOWNLOAD")),
         login_attempts |-> Len(SelectSeq(logs, LAMBDA log :
                               log.event_type \in {"LOGIN_SUCCESS", "LOGIN_FAILED"})),
         failed_logins |-> Len(SelectSeq(logs, LAMBDA log :
                               log.event_type \in {"LOGIN_SUCCESS", "LOGIN_FAILED"})),
         event_types |-> event_types(logs)]

\* the value of the 'summary' key of what get_security_summary returns
\* (the 'success' key is always True)
get_security_summary(audit_logs, username) ==
    LET logs == get_audit_logs(audit_logs, username, NoneStr, 1000)
    IN  [total_events |-> Len(logs),
         successful_events |-> Len(SelectSeq(logs, LAMBDA log : log.success)),
         failed_events |-> Len(SelectSeq(logs, LAMBDA log : ~log.success)),
         access_denied |-> Len(SelectSeq(logs, LAMBDA log : log.event_type = "ACCESS_DENIED")),
         uploads |-> Len(SelectSeq(logs, LAMBDA log : log.event_type = "FILE_UPLOAD")),
         downloads |-> Len(SelectSeq(logs, LAMBDA log : log.event_type = "FILE_DOWNLOAD")),
         login_attempts |-> Len(SelectSeq(logs, LAMBDA log :
                               log.event_type \in {"LOGIN_SUCCESS", "LOGIN_FAILED"})),
         failed_logins |-> Len(SelectSeq(logs, LAMBDA log : log.event_type = "LOGIN_FAILED")),
         event_types |-> event_types(logs)]

\* the report text as the values it is rendered from, in the order of the
\* text; the breakdown lists the event types in the order the summary met
\* them (dict insertion order: first occurrence, newest log first)
generate_security_report(audit_logs, username) ==
    LET summary == get_security_summary(audit_logs, username)
        logs == get_audit_logs(audit_logs, username, NoneStr, 1000)
        types == DOMAIN summary.event_types
        first(t) == CHOOSE i \in 1..Len(logs) :
                       /\ logs[i].event_type = t
                       /\ \A j \in 1..(i - 1) : logs[j].event_type # t
        rank(t) == Cardinality({u \in types : first(u) < first(t)}) + 1
    IN  [user |-> IF username # NoneStr /\ username # ""
                  THEN <<"User: ", username>> ELSE <<"All Users">>,
         total_events |-> summary.total_events,
         successful |-> summary.successful_events,
         failed |-> summary.failed_events,
         access_denied |-> summary.access_denied,
         failed_logins |-> summary.failed_logins,
         uploads |-> summary.uploads,
         downloads |-> summary.downloads,
         login_attempts |-> summary.login_attempts,
         breakdown |-> [k \in 1..Cardinality(types) |->
                          LET t == CHOOSE u \in types : rank(u) = k
                          IN  <<t, summary.event_types[t]>>]]

(***************************************************************************)
(* app.py : the share endpoint                                             *)
(***************************************************************************)
\* get_client_ip() of a request that reaches the server on 127.0.0.1 directly
ClientIp == IP_loopback

\* mutant: every allowed identity may change the policy
share_file_members_may_change(fs, audit_logs, timestamp, current_user, file_id, data) ==
    LET file_meta == IF file_id \in DOMAIN fs THEN fs[file_id] ELSE None
        given == [k \in DOMAIN data \cap {"allowed_users", "access_times", "allowed_regions"}
                    |-> data[k]]
        upd == update_file_access(fs, file_id, given)
        entry == log_entry(timestamp, "PERMISSION_CHANGE", current_user, file_id,
                           [changes |-> data, action |-> "File access control updated"],
                           ClientIp, TRUE)
        unchanged(status, message) ==
            [files |-> fs, audit_log |-> audit_logs, logged |-> <<>>,
             out |-> [status |-> status, success |-> FALSE, message |-> message]]
    IN  IF file_meta = None THEN unchanged(404, "File not found")
        ELSE IF ~In(current_user, file_meta.allowed_users)
        THEN unchanged(403, "Only file owner can modify permissions")
        ELSE IF "raised" \in DOMAIN upd.out
        THEN unchanged(500, "Failed to update permissions")
        ELSE IF upd.out.success
        THEN [files |-> upd.files,
              audit_log |-> log_event(audit_logs, entry),
              logged |-> <<entry>>,
              out |-> [status |-> 200, success |-> TRUE, message |-> upd.out.message]]
        ELSE unchanged(500, upd.out.message)

\* The value is [files, audit_log |-> the stores after the request,
\*               logged |-> the entries handed to log_event,
\*               out |-> the response].
share_file(fs, audit_logs, timestamp, current_user, file_id, data) ==
    LET file_meta == IF file_id \in DOMAIN fs THEN fs[file_id] ELSE None
        given == [k \in DOMAIN data \cap {"allowed_users", "access_times", "allowed_regions"}
                    |-> data[k]]
        upd == update_file_access(fs, file_id, given)
        entry == log_entry(timestamp, "PERMISSION_CHANGE", current_user, file_id,
                           [changes |-> data, action |-> "File access control updated"],
                           ClientIp, TRUE)
        unchanged(status, message) ==
            [files |-> fs, audit_log |-> audit_logs, logged |-> <<>>,
             out |-> [status |-> status, success |-> FALSE, message |-> message]]
    IN  IF file_meta = None THEN unchanged(404, "File not found")
        ELSE IF file_meta.owner # current_user
        THEN unchanged(403, "Only file owner can modify permissions")
        ELSE IF "raised" \in DOMAIN upd.out
        THEN unchanged(500, "Failed to update permissions")
        ELSE IF upd.out.success
        THEN [files |-> upd.files,
              audit_log |-> log_event(audit_logs, entry),
              logged |-> <<entry>>,
              out |-> [status |-> 200, success |-> TRUE, message |-> upd.out.message]]
        ELSE unchanged(500, upd.out.message)

\* app.py delete_file; s3_deleted is whether aws_handler.delete_file
\* succeeded (it catches every exception of the S3 client)
delete_file(fs, audit_logs, timestamp, current_user, file_id, s3_deleted) ==
    LET file_meta == IF file_id \in DOMAIN fs THEN fs[file_id] ELSE None
        del == delete_file_metadata(fs, file_id)
        entry == log_entry(timestamp, "FILE_DELETE", current_user, file_id,
                           [filename |-> file_meta.original_filename,
                            action |-> "File permanently deleted"],
                           ClientIp, TRUE)
        unchanged(status, message) ==
            [files |-> fs, audit_log |-> audit_logs, logged |-> <<>>,
             out |-> [status |-> status, success |-> FALSE, message |-> message]]
    IN  IF file_meta = None THEN unchanged(404, "File not found")
        ELSE IF file_meta.owner # current_user
        THEN unchanged(403, "Only file owner can delete files")
        ELSE IF ~s3_deleted THEN unchanged(500, "Delete failed")
        ELSE IF del.out.success
        THEN [files |-> del.files,
              audit_log |-> log_event(audit_logs, entry),
              logged |-> <<entry>>,
              out |-> [status |-> 200, success |-> TRUE, message |-> del.out.message]]
        ELSE unchanged(500, del.out.message)

(***************************************************************************)
(* The policy store and the share endpoint as a state machine              *)
(***************************************************************************)
MaxEvents == 1

WindowNight == [start |-> T2200, end |-> T0600]

\* metadata dicts passed to save_file_metadata
Metadatas ==
    { <<>>,
      [access_start_time |-> WindowNight.start, access_end_time |-> WindowNight.end,
       allowed_regions |-> <<"US">>] }

\* the access settings a caller supplies: the JSON body of a share request,
\* the keyword arguments of update_file_access
AccessChanges ==
    { <<>>,
      [allowed_users |-> <<"bob">>],
      [allowed_users |-> <<"alice", "bob">>],
      [access_times |-> WindowNight],
      [allowed_regions |-> <<"US">>],
      [allowed_users |-> <<"alice">>, access_times |-> [start |-> T0900, end |-> T1800],
       allowed_regions |-> DefaultRegions],
      [access_times |-> [start |-> T0900]] }

Init ==
    /\ files = <<>>
    /\ audit_log = <<>>
    /\ recorded = <<>>
    /\ result = NoResult
    /\ calls = [t \in Threads |-> Idle]
    /\ torn = FALSE
    /\ files_torn = FALSE

SaveFileMetadata ==
    /\ result = NoResult
    /\ \E file_id \in FileIds, owner \in Users, metadata \in Metadatas :
        LET r == save_file_metadata(files, file_id, owner, "secret.txt", metadata)
        IN  /\ files' = r.files
            /\ result' = [op |-> "save_file_metadata", file_id |-> file_id,
                          owner |-> owner, metadata |-> metadata, out |-> r.out]
            /\ UNCHANGED <<audit_log, recorded, calls, torn, files_torn>>

UpdateFileAccess ==
    /\ result = NoResult
    /\ \E file_id \in FileIds, given \in AccessChanges :
        LET r == update_file_access(files, file_id, given)
        IN  /\ files' = r.files
            /\ result' = [op |-> "update_file_access", file_id |-> file_id,
                          given |-> given, before |-> files, out |-> r.out]
            /\ UNCHANGED <<audit_log, recorded, calls, torn, files_torn>>

DeleteFileMetadata ==
    /\ result = NoResult
    /\ \E file_id \in FileIds :
        LET r == delete_file_metadata(files, file_id)
        IN  /\ files' = r.files
            /\ result' = [op |-> "delete_file_metadata", file_id |-> file_id,
                          out |-> r.out]
            /\ UNCHANGED <<audit_log, recorded, calls, torn, files_torn>>

ShareFile ==
    /\ result = NoResult
    /\ Len(recorded) < MaxEvents
    /\ \E current_user \in Users, file_id \in FileIds, data \in AccessChanges :
        LET r == share_file(files, audit_log, Len(recorded) + 1,
                            current_user, file_id, data)
        IN  /\ files' = r.files
            /\ audit_log' = r.audit_log
            /\ recorded' = recorded \o r.logged
            /\ result' = [op |-> "share_file", current_user |-> current_user,
                          file_id |-> file_id, data |-> data, before |-> files,
                          out |-> r.out]
            /\ UNCHANGED <<calls, torn, files_torn>>

DeleteFile ==
    /\ result = NoResult
    /\ Len(recorded) < MaxEvents
    /\ \E current_user \in Users, file_id \in FileIds, s3_deleted \in BOOLEAN :
        LET r == delete_file(files, audit_log, Len(recorded) + 1,
                             current_user, file_id, s3_deleted)
        IN  /\ files' = r.files
            /\ audit_log' = r.audit_log
            /\ recorded' = recorded \o r.logged
            /\ result' = [op |-> "delete_file", current_user |-> current_user,
                          file_id |-> file_id, s3_deleted |-> s3_deleted,
                          before |-> files, out |-> r.out]
            /\ UNCHANGED <<calls, torn, files_torn>>

Next ==
    \/ Return
    \/ SaveFileMetadata
    \/ UpdateFileAccess
    \/ DeleteFileMetadata
    \/ ShareFile
    \/ DeleteFile

Spec == Init /\ [][Next]_vars

\* C3: the owner of every stored policy is one of its allowed identities, in
\* every reachable state.
C3_OwnerAlwaysAllowed ==
    \A file_id \in DOMAIN files :
        In(files[file_id].owner, files[file_id].allowed_users)

(***************************************************************************)
(* The audit log as a state machine: log_event and get_audit_logs on a log *)
(* that is empty or one entry short of the cap                             *)
(***************************************************************************)
MaxAppends == 3

\* the log n calls of log_authentication(alice, LOGIN_SUCCESS) leave
Prefill(n) ==
    [i \in 1..n |-> log_entry(i, "LOGIN_SUCCESS", "alice", NoneStr, <<>>, ClientIp, TRUE)]

PrefillLens == {0, LogCap - 1}

\* arguments of log_event as the audit_logger functions pass them
EventInputs ==
    { [event_type |-> "FILE_UPLOAD", username |-> "alice", file_id |-> "f1",
       success |-> TRUE, details |-> [action |-> "File uploaded and encrypted"]],
      [event_type |-> "FILE_DOWNLOAD", username |-> "alice", file_id |-> "f2",
       success |-> TRUE, details |-> [action |-> "File downloaded and decrypted"]],
      [event_type |-> "ACCESS_DENIED", username |-> "bob", file_id |-> "f1",
       success |-> FALSE, details |-> [action |-> "Access denied by Zero-Trust policy"]],
      [event_type |-> "LOGIN_FAILED", username |-> "bob", file_id |-> NoneStr,
       success |-> FALSE, details |-> <<>>] }

\* limit: the default, the one get_security_summary passes, and values the
\* audit endpoints take from the query string
Limits == {-1, 0, 1, 2, 50, LogCap}

InitAudit ==
    /\ files = <<>>
    /\ \E n \in PrefillLens :
          /\ audit_log = Prefill(n)
          /\ recorded = Prefill(n)
    /\ result = NoResult
    /\ calls = [t \in Threads |-> Idle]
    /\ torn = FALSE
    /\ files_torn = FALSE

LogEvent ==
    /\ result = NoResult
    /\ \E n \in PrefillLens : Len(recorded) \in n..(n + MaxAppends - 1)
    /\ \E e \in EventInputs :
        LET entry == log_entry(Len(recorded) + 1, e.event_type, e.username,
                               e.file_id, e.details, ClientIp, e.success)
        IN  /\ audit_log' = log_event(audit_log, entry)
            /\ recorded' = Append(recorded, entry)
            /\ result' = [op |-> "log_event", entry |-> entry]
            /\ UNCHANGED <<files, calls, torn, files_torn>>

GetAuditLogs ==
    /\ result = NoResult
    /\ \E username \in {NoneStr, "alice"}, file_id \in {NoneStr, "f1"}, limit \in Limits :
        /\ result' = [op |-> "get_audit_logs", username |-> username,
                      file_id |-> file_id, limit |-> limit,
                      out |-> get_audit_logs(audit_log, username, file_id, limit)]
        /\ UNCHANGED <<files, audit_log, recorded, calls, torn, files_torn>>

GetSecuritySummary ==
    /\ result = NoResult
    /\ \E username \in {NoneStr, "alice"} :
        /\ result' = [op |-> "get_security_summary", username |-> username,
                      out |-> get_security_summary(audit_log, username)]
        /\ UNCHANGED <<files, audit_log, recorded, calls, torn, files_torn>>

GenerateSecurityReport ==
    /\ result = NoResult
    /\ \E username \in {NoneStr, "alice"} :
        /\ result' = [op |-> "generate_security_report", username |-> username,
                      out |-> generate_security_report(audit_log, username)]
        /\ UNCHANGED <<files, audit_log, recorded, calls, torn, files_torn>>

NextAudit ==
    \/ Return
    \/ LogEvent
    \/ GetAuditLogs
    \/ GetSecuritySummary
    \/ GenerateSecurityReport

SpecAudit == InitAudit /\ [][NextAudit]_vars

\* C10: the stored log never holds more than LogCap entries; it is the last
\* min(LogCap, number recorded) recorded entries in recording order (after
\* LogCap + k appends exactly the LogCap most recent, newest last); an
\* unfiltered get_audit_logs with limit >= 1 returns the last min(limit, length)
\* stored entries newest first.
C10_BoundedLog ==
    /\ Len(audit_log) <= LogCap
    /\ LET n == Len(recorded)
           m == IF n > LogCap THEN LogCap ELSE n
       IN  audit_log = SubSeq(recorded, n - m + 1, n)
    /\ ( /\ result.op = "get_audit_logs"
         /\ result.username = NoneStr
         /\ result.file_id = NoneStr
         /\ result.limit >= 1 )
       => /\ Len(result.out) =
                 (IF result.limit < Len(audit_log) THEN result.limit ELSE Len(audit_log))
          /\ \A i \in 1..Len(result.out) :
                 result.out[i] = audit_log[Len(audit_log) - i + 1]

C10_Witness ==
    /\ Len(recorded) = LogCap + 2
    /\ Len(audit_log) = LogCap
    /\ audit_log[LogCap] = recorded[LogCap + 2]
    /\ result.op = "get_audit_logs"
    /\ result.username = NoneStr
    /\ result.file_id = NoneStr
    /\ result.limit = LogCap
    /\ Len(result.out) = LogCap
    /\ result.out[1] = recorded[LogCap + 2]

\* C11: for every log content, every combination of filters and every limit
\* >= 0 (limit = 0 included), get_audit_logs returns at most limit entries.
C11_AtMostLimit ==
    (result.op = "get_audit_logs" /\ result.limit >= 0)
    => Len(result.out) <= result.limit

\* the entry passes every filter provided to the call
PassesFilters(log, username, file_id) ==
    /\ username # NoneStr => log.username = username
    /\ file_id # NoneStr => log.file_id = file_id

\* C12: for limit >= 1, get_audit_logs returns exactly the min(limit, m) most
\* recently appended of the m stored entries that pass every provided filter
\* (identity and resource), newest first; no returned entry fails a provided
\* filter.
C12_NewestMatchingFirst ==
    (result.op = "get_audit_logs" /\ result.limit >= 1)
    => LET matching == SelectSeq(audit_log,
                          LAMBDA log : PassesFilters(log, result.username, result.file_id))
           m == Len(matching)
       IN  /\ Len(result.out) = (IF result.limit < m THEN result.limit ELSE m)
           /\ \A j \in 1..Len(result.out) :
                  /\ result.out[j] = matching[m - j + 1]
                  /\ PassesFilters(result.out[j], result.username, result.file_id)

\* both filters given, two stored entries pass them and a later one fails the
\* identity filter only; limit 1 returns the newer of the two
C12_Witness ==
    /\ result.op = "get_audit_logs"
    /\ result.username = "alice"
    /\ result.file_id = "f1"
    /\ result.limit = 1
    /\ Len(audit_log) = 3
    /\ audit_log[1].username = "alice" /\ audit_log[1].file_id = "f1"
    /\ audit_log[2].username = "alice" /\ audit_log[2].file_id = "f1"
    /\ audit_log[3].username = "bob" /\ audit_log[3].file_id = "f1"
    /\ result.out = <<audit_log[2]>>

ReadOps == {"get_audit_logs", "get_security_summary", "generate_security_report"}

\* log is the last Len(log) entries of all, in the same order
IsSuffix(log, all) ==
    /\ Len(log) <= Len(all)
    /\ log = SubSeq(all, Len(all) - Len(log) + 1, Len(all))

\* C15: in every state the log is a contiguous suffix of the sequence of all
\* events ever recorded, in recording order; a step of get_audit_logs,
\* get_security_summary or generate_security_report leaves the log unchanged;
\* a step of log_event keeps every stored entry as it was, puts the new entry
\* last and removes entries only from the old end and only beyond the cap.
C15_AppendOnlyLog ==
    /\ [](IsSuffix(audit_log, recorded))
    /\ [][ /\ result'.op \in ReadOps => audit_log' = audit_log
           /\ result'.op = "log_event" =>
                LET appended == Append(audit_log, result'.entry)
                    evicted == Len(appended) - Len(audit_log')
                IN  /\ recorded' = Append(recorded, result'.entry)
                    /\ evicted >= 0
                    /\ evicted > 0 => Len(audit_log') = LogCap
                    /\ audit_log' = SubSeq(appended, evicted + 1, Len(appended)) ]_vars

\* the report is generated from a log whose oldest entry has been evicted
C15_Witness ==
    /\ Len(recorded) = LogCap + 1
    /\ Len(audit_log) = LogCap
    /\ audit_log[1] = recorded[2]
    /\ result.op = "generate_security_report"
    /\ result.out.total_events = LogCap

(***************************************************************************)
(* The gates one by one (under SpecGates)                                  *)
(***************************************************************************)
\* C17: check_user_permission on an existing policy returns allowed = (the
\* identity is one of the policy's allowed identities) with check
\* user_permission in both outcomes; an identity outside the allow-list is
\* denied, the owner included.
C17_IdentityGateIsMembership ==
    ( /\ result.op = "check_user_permission"
      /\ result.file_id \in DOMAIN files )
    => LET allowed_users == files[result.file_id].allowed_users
           member == \E i \in 1..Len(allowed_users) : allowed_users[i] = result.username
       IN  /\ result.out.check = "user_permission"
           /\ result.out.allowed = member

\* the owner alice, left out of the allow-list, is denied by the identity gate
C17_Witness ==
    /\ result.op = "check_user_permission"
    /\ result.file_id \in DOMAIN files
    /\ result.username = "alice"
    /\ files[result.file_id].owner = "alice"
    /\ files[result.file_id].allowed_users = <<"bob">>
    /\ ~result.out.allowed
    /\ result.out.check = "user_permission"

\* the policy of file_id has a window bound that is None or is not hour:minute
UnparseableWindow(file_id) ==
    /\ file_id \in DOMAIN files
    /\ \/ ~strptime_HM(files[file_id].access_start_time).ok
       \/ ~strptime_HM(files[file_id].access_end_time).ok

\* C18: when the stored window start or end is None or does not parse as
\* 24-hour hour:minute, check_time_based_access returns allowed = false with
\* check time_based at every clock value, and verify_access never returns
\* allowed = true for that resource (its time gate, when reached, is the
\* failed check).
C18_UnparseableWindowDenies ==
    /\ ( /\ result.op = "check_time_based_access"
         /\ UnparseableWindow(result.file_id) )
       => /\ ~result.out.allowed
          /\ result.out.check = "time_based"
    /\ ( /\ result.op = "verify_access"
         /\ UnparseableWindow(result.file_id) )
       => /\ ~result.out.allowed
          /\ Len(result.out.checks) >= 2 => result.out.failed_check = "time_based"

\* an allowed identity asks at 10:00 from a local origin for a resource whose
\* window is 09:00 to 25:00, and is denied by the time gate
C18_Witness ==
    /\ result.op = "verify_access"
    /\ result.file_id \in DOMAIN files
    /\ files[result.file_id].access_start_time = T0900
    /\ files[result.file_id].access_end_time = T2500
    /\ result.now = time(10, 0, 0)
    /\ In(result.username, files[result.file_id].allowed_users)
    /\ ~result.out.allowed
    /\ result.out.failed_check = "time_based"

\* C19: for a policy whose window end is earlier than its window start (both
\* parseable, e.g. 22:00 to 06:00), check_time_based_access returns allowed =
\* false at every time of day.
C19_InvertedWindowDeniesAlways ==
    ( /\ result.op = "check_time_based_access"
      /\ result.file_id \in DOMAIN files
      /\ strptime_HM(files[result.file_id].access_start_time).ok
      /\ strptime_HM(files[result.file_id].access_end_time).ok
      /\ strptime_HM(files[result.file_id].access_end_time).time
           < strptime_HM(files[result.file_id].access_start_time).time )
    => /\ ~result.out.allowed
       /\ result.out.check = "time_based"

\* the window is 22:00 to 06:00 and the gate is asked at 22:01:00
C19_Witness ==
    /\ result.op = "check_time_based_access"
    /\ result.file_id \in DOMAIN files
    /\ files[result.file_id].access_start_time = T2200
    /\ files[result.file_id].access_end_time = T0600
    /\ result.now = time(22, 1, 0)
    /\ ~result.out.allowed

\* the region code the resolver reports for the origin: IN without a lookup
\* for a local origin, else the countryCode of the answer (UNKNOWN if absent)
ResolvedRegion(ip_address, net) ==
    get_location_from_ip(ip_address, net).out.country_code

\* C20: when region resolution succeeds, check_location_based_access on an
\* existing policy returns allowed = (the resolved region code is one of the
\* policy's allowed regions) with check location_based; a policy with an empty
\* allowed-regions list denies every origin; an origin resolving to FR against
\* allowed regions [US] makes verify_access, once identity and time pass, deny
\* with failed_check location_based.
C20_RegionGateIsMembership ==
    /\ ( /\ result.op = "check_location_based_access"
         /\ result.file_id \in DOMAIN files
         /\ ~ResolutionFails(result.ip_address, result.net) )
       => LET allowed_regions == files[result.file_id].allowed_regions
              code == ResolvedRegion(result.ip_address, result.net)
          IN  /\ result.out.check = "location_based"
              /\ result.out.allowed =
                    (\E i \in 1..Len(allowed_regions) : allowed_regions[i] = code)
    /\ ( /\ result.op = "check_location_based_access"
         /\ result.file_id \in DOMAIN files
         /\ files[result.file_id].allowed_regions = <<>> )
       => ~result.out.allowed
    /\ ( /\ result.op = "verify_access"
         /\ result.file_id \in DOMAIN files
         /\ files[result.file_id].allowed_regions = <<"US">>
         /\ ~ResolutionFails(result.ip_address, result.net)
         /\ ResolvedRegion(result.ip_address, result.net) = "FR"
         /\ Len(result.out.checks) = 3 )
       => /\ ~result.out.allowed
          /\ result.out.failed_check = "location_based"

\* a public origin resolves to FR, the policy allows [US], identity and time
\* pass, and verify_access denies at the region gate
C20_Witness ==
    /\ result.op = "verify_access"
    /\ result.file_id \in DOMAIN files
    /\ files[result.file_id].allowed_regions = <<"US">>
    /\ result.ip_address = IP_public
    /\ result.http = <<IP_public>>
    /\ Len(result.out.checks) = 3
    /\ "location" \in DOMAIN result.out.checks[3].value
    /\ result.out.checks[3].value.location.country_code = "FR"
    /\ ~result.out.allowed
    /\ result.out.failed_check = "location_based"

(***************************************************************************)
(* audit_logger.py : the entries the download endpoint records             *)
(***************************************************************************)
\* dict.update(other)
dict_update(d, other) ==
    [k \in DOMAIN d \cup DOMAIN other |-> IF k \in DOMAIN other THEN other[k] ELSE d[k]]

\* the checks of a verdict as the dict they are: gate name -> gate result
checks_dict(checks) ==
    [k \in {checks[i].key : i \in 1..Len(checks)} |->
        (CHOOSE c \in {checks[i] : i \in 1..Len(checks)} : c.key = k).value]

\* the entry log_access_denied hands to log_event; details is a dict
log_access_denied(timestamp, username, file_id, reason, failed_check, ip_address, details) ==
    LET log_details == [reason |-> reason, failed_check |-> failed_check,
                        action |-> "Access denied by Zero-Trust policy"]
    IN  log_entry(timestamp, "ACCESS_DENIED", username, file_id,
                  IF DOMAIN details # {} THEN dict_update(log_details, details)
                  ELSE log_details,
                  ip_address, FALSE)

\* the entry log_download hands to log_event
log_download(timestamp, username, file_id, filename, ip_address, success) ==
    log_entry(timestamp, "FILE_DOWNLOAD", username, file_id,
              [filename |-> filename,
               action |-> IF success THEN "File downloaded and decrypted"
                          ELSE "Download failed"],
              ip_address, success)

(***************************************************************************)
(* app.py : the download endpoint                                          *)
(***************************************************************************)
\* What aws_handler.download_file(file_id) can return: a failure, the object
\* with the metadata upload_file stores, an object stored without metadata.
S3Outcomes ==
    { [success |-> FALSE, message |-> "File not found in S3"],
      [success |-> TRUE, message |-> "File downloaded successfully",
       metadata |-> [salt |-> "salt", original_filename |-> "secret.txt"]],
      [success |-> TRUE, message |-> "File downloaded successfully",
       metadata |-> <<>>] }

\* password is the 'password' of the JSON body (None when absent); now and
\* net are the clock and the lookup outcome verify_access meets; s3 is what
\* the blob download returns, decrypts whether decrypt_file succeeds, sends
\* whether send_file returns.  The value is
\* [audit_log |-> the log after the request, logged |-> the entries handed to
\*  log_event, verdict |-> the verdicts verify_access returned (none or one),
\*  out |-> the response].
download_file(audit_logs, timestamp, current_user, file_id, client_ip, password, now, net, s3, decrypts, sends) ==
    LET respond(logged, verdict, out) ==
            [audit_log |-> IF logged = <<>> THEN audit_logs
                           ELSE log_event(audit_logs, logged[1]),
             logged |-> logged, verdict |-> verdict, out |-> out]
    IN  CHOOSE response \in {
        \* verification is the value of the one call of verify_access
        IF password = NoneStr \/ password = ""
        THEN respond(<<>>, <<>>,
                     [status |-> 400, success |-> FALSE,
                      message |-> [msg |-> "Password is required"]])
        ELSE IF ~verification.allowed
        THEN respond(<<log_access_denied(timestamp, current_user, file_id,
                                         verification.denied_reason,
                                         verification.failed_check, client_ip,
                                         checks_dict(verification.checks))>>,
                     <<verification>>,
                     [status |-> 403, success |-> FALSE,
                      message |-> [msg |-> "Access Denied",
                                   denied_reason |-> verification.denied_reason],
                      failed_check |-> verification.failed_check,
                      details |-> checks_dict(verification.checks)])
        ELSE IF ~s3.success
        THEN respond(<<log_download(timestamp, current_user, file_id, "unknown",
                                    client_ip, FALSE)>>,
                     <<verification>>,
                     [status |-> 404, success |-> FALSE,
                      message |-> [msg |-> s3.message]])
        ELSE IF "salt" \notin DOMAIN s3.metadata
        THEN respond(<<>>, <<verification>>,
                     [status |-> 500, success |-> FALSE,
                      message |-> [msg |-> "Download failed", error |-> "KeyError"]])
        ELSE IF ~decrypts
        THEN respond(<<log_download(timestamp, current_user, file_id,
                                    dict_get(s3.metadata, "original_filename", "unknown"),
                                    client_ip, FALSE)>>,
                     <<verification>>,
                     [status |-> 401, success |-> FALSE,
                      message |-> [msg |-> "Decryption failed - Wrong password?"]])
        ELSE respond(<<log_download(timestamp, current_user, file_id,
                                    dict_get(s3.metadata, "original_filename",
                                             "decrypted_file"),
                                    client_ip, TRUE)>>,
                     <<verification>>,
                     IF sends
                     THEN [status |-> 200,
                           download_name |-> dict_get(s3.metadata, "original_filename",
                                                      "decrypted_file")]
                     ELSE [status |-> 500, success |-> FALSE,
                           message |-> [msg |-> "Download failed",
                                        error |-> "send_file"]])
        : verification \in
            {verify_access(current_user, file_id, client_ip, now, net).out} } : TRUE

(***************************************************************************)
(* The download endpoint as a state machine                                *)
(***************************************************************************)
MaxDownloads == 1

DownloadStores ==
    { [f \in {"f1"} |-> Policy("alice", <<"alice">>, w, rs)] :
        w \in { [start |-> T0900, end |-> T1800], [start |-> T0900, end |-> T2500] },
        rs \in { <<"US">>, <<"IN", "US">> } }

DownloadClock == { time(10, 0, 0), time(22, 0, 0) }

DownloadNet == { net \in NetOutcomes :
                   \/ net.kind = "raise" /\ net.error = "Timeout"
                   \/ /\ net.kind = "response"
                      /\ "countryCode" \in DOMAIN net.body }

InitDownload ==
    /\ files \in DownloadStores
    /\ audit_log = <<>>
    /\ recorded = <<>>
    /\ result = NoResult
    /\ calls = [t \in Threads |-> Idle]
    /\ torn = FALSE
    /\ files_torn = FALSE

DownloadFile ==
    /\ result = NoResult
    /\ Len(recorded) < MaxDownloads
    /\ \E current_user \in Users, file_id \in FileIds,
          client_ip \in {IP_loopback, IP_public}, password \in {NoneStr, "pw"},
          now \in DownloadClock, net \in DownloadNet, s3 \in S3Outcomes,
          decrypts \in BOOLEAN, sends \in BOOLEAN :
        \E r \in {download_file(audit_log, Len(recorded) + 1, current_user, file_id,
                                 client_ip, password, now, net, s3, decrypts, sends)} :
            /\ audit_log' = r.audit_log
            /\ recorded' = recorded \o r.logged
            /\ result' = [op |-> "download_file", current_user |-> current_user,
                          file_id |-> file_id, client_ip |-> client_ip,
                          s3 |-> s3, decrypts |-> decrypts, sends |-> sends,
                          before |-> audit_log, logged |-> r.logged,
                          verdict |-> r.verdict, out |-> r.out]
            /\ UNCHANGED <<files, calls, torn, files_torn>>

NextDownload ==
    \/ Return
    \/ DownloadFile

SpecDownload == InitDownload /\ [][NextDownload]_vars

\* C16: every verdict of verify_access in the download endpoint is in the
\* audit log when the response is returned: a denied verdict has appended
\* exactly one ACCESS_DENIED entry with success false that carries the
\* verdict's denied_reason and failed_check; an allowed verdict has appended
\* exactly one FILE_DOWNLOAD entry, whatever happens after the verdict (blob
\* download failure, decryption failure, unexpected error).
C16_EveryVerdictLogged ==
    (result.op = "download_file" /\ result.verdict # <<>>)
    => LET verdict == result.verdict[1]
       IN  /\ Len(result.logged) = 1
           /\ audit_log = Append(result.before, result.logged[1])
           /\ result.logged[1].username = result.current_user
           /\ result.logged[1].file_id = result.file_id
           /\ ~verdict.allowed =>
                 /\ result.logged[1].event_type = "ACCESS_DENIED"
                 /\ ~result.logged[1].success
                 /\ result.logged[1].details.reason = verdict.denied_reason
                 /\ result.logged[1].details.failed_check = verdict.failed_check
           /\ verdict.allowed => result.logged[1].event_type = "FILE_DOWNLOAD"

(***************************************************************************)
(* database.py : the audit log under threads.  log_event is three steps:   *)
(* _read_json, open(filepath, 'w') which truncates the file, json.dump and *)
(* close which make the new content complete.  Nothing serialises them.    *)
(***************************************************************************)
MaxThreadEvents == 3

ThreadEvents ==
    { e \in EventInputs : e.event_type \in {"FILE_UPLOAD", "ACCESS_DENIED"} }

InitThreads ==
    /\ files = <<>>
    /\ \E n \in {0, 1} :
          /\ audit_log = Prefill(n)
          /\ recorded = Prefill(n)
    /\ result = NoResult
    /\ calls = [t \in Threads |-> Idle]
    /\ torn = FALSE
    /\ files_torn = FALSE

\* log_event, lines 192-208: read the log, build the entry, append, trim
LogEventRead(t) ==
    /\ calls[t] = Idle
    /\ Len(recorded) < MaxThreadEvents
    /\ \E e \in ThreadEvents :
        LET read == read_json(audit_log, torn)
            entry == log_entry(Len(recorded) + 1, e.event_type, e.username,
                               e.file_id, e.details, ClientIp, e.success)
        IN  /\ calls' = [calls EXCEPT ![t] =
                            [pc |-> "open", op |-> "log_event", entry |-> entry,
                             read_failed |-> read.failed,
                             audit_logs |-> log_event(read.data, entry)]]
            /\ recorded' = Append(recorded, entry)
    /\ UNCHANGED <<files, audit_log, result, torn, files_torn>>

\* _write_json, line 47: open(filepath, 'w') truncates the file
LogEventOpen(t) ==
    /\ calls[t].pc = "open"
    /\ calls' = [calls EXCEPT ![t].pc = "dump"]
    /\ audit_log' = <<>>
    /\ torn' = TRUE
    /\ UNCHANGED <<files, recorded, result, files_torn>>

\* _write_json, lines 48-49: json.dump and the close of the file.  When
\* another writer has completed its content since this writer opened the
\* file, this writer's bytes overwrite that content from the start: the file
\* ends as this writer's document, or as that document followed by the rest
\* of the longer one, which is no JSON document.
LogEventDump(t) ==
    /\ calls[t].pc = "dump"
    /\ \E overlaid \in (IF torn THEN {FALSE} ELSE BOOLEAN) :
          IF overlaid
          THEN audit_log' = <<>> /\ torn' = TRUE
          ELSE audit_log' = calls[t].audit_logs /\ torn' = FALSE
    /\ calls' = [calls EXCEPT ![t].pc = "done"]
    /\ UNCHANGED <<files, recorded, result, files_torn>>

\* get_audit_logs reads the file once
ThreadGetAuditLogs(t) ==
    /\ calls[t] = Idle
    /\ \E username \in {NoneStr, "alice"}, limit \in {1, 50} :
        LET read == read_json(audit_log, torn)
        IN  calls' = [calls EXCEPT ![t] =
                        [pc |-> "done", op |-> "get_audit_logs",
                         username |-> username, limit |-> limit,
                         read_failed |-> read.failed, audit_logs |-> read.data,
                         out |-> get_audit_logs(read.data, username, NoneStr, limit)]]
    /\ UNCHANGED <<files, audit_log, recorded, result, torn, files_torn>>

\* get_security_summary reads the file once, through get_audit_logs
ThreadGetSecuritySummary(t) ==
    /\ calls[t] = Idle
    /\ LET read == read_json(audit_log, torn)
       IN  calls' = [calls EXCEPT ![t] =
                        [pc |-> "done", op |-> "get_security_summary",
                         read_failed |-> read.failed, audit_logs |-> read.data,
                         out |-> get_security_summary(read.data, NoneStr)]]
    /\ UNCHANGED <<files, audit_log, recorded, result, torn, files_torn>>

\* the call returns to its caller
ThreadReturn(t) ==
    /\ calls[t].pc = "done"
    /\ calls' = [calls EXCEPT ![t] = Idle]
    /\ UNCHANGED <<files, audit_log, recorded, result, torn, files_torn>>

NextThreads ==
    \E t \in Threads :
        \/ LogEventRead(t)
        \/ LogEventOpen(t)
        \/ LogEventDump(t)
        \/ ThreadGetAuditLogs(t)
        \/ ThreadGetSecuritySummary(t)
        \/ ThreadReturn(t)

SpecThreads == InitThreads /\ [][NextThreads]_vars

\* no thread is inside log_event
NoLogEventInProgress ==
    \A t \in Threads : calls[t].pc \notin {"open", "dump"}

\* C13: when log_event calls of several threads interleave, the log is not
\* corrupted: once no log_event call is in progress, the file is a complete
\* document, every entry appended by a call and every entry stored before
\* is in the log exactly once (the cap is not reached), in the order the
\* entries were built.
C13_InterleavedAppendsKept ==
    NoLogEventInProgress
    => /\ ~torn
       /\ \A i \in 1..Len(recorded) :
              Cardinality({j \in 1..Len(audit_log) : audit_log[j] = recorded[i]}) = 1
       /\ \A j, k \in 1..Len(audit_log) :
              j < k => audit_log[j].timestamp < audit_log[k].timestamp

\* C14: a get_audit_logs or get_security_summary call that runs while a
\* log_event call is in progress computes its result from a complete content
\* of the log file (the one before or the one after the append), never from
\* the empty list a failed read of the truncated or partial file yields.
C14_ReadsSeeCompleteLog ==
    \A t \in Threads :
        ( /\ calls[t].pc = "done"
          /\ calls[t].op \in {"get_audit_logs", "get_security_summary"} )
        => ~calls[t].read_failed

(***************************************************************************)
(* The resolver and the engine (under SpecGates)                           *)
(***************************************************************************)
\* the lookup answered HTTP 200 with a JSON body whose status is success
AnsweredSuccess(net) ==
    /\ net.kind = "response"
    /\ net.status_code = 200
    /\ "status" \in DOMAIN net.body
    /\ net.body.status = "success"

\* C21: for a non-local origin get_location_from_ip makes exactly one external
\* lookup in the call (never a second one); every outcome of it other than an
\* HTTP 200 answer with status success (other status code, other status,
\* timeout, transport error, malformed body) gives success = false with a
\* reason; in every case the call returns a dict.
C21_OneLookupFailFast ==
    (result.op = "get_location_from_ip" /\ ~is_local_origin(result.ip_address))
    => /\ result.http = <<result.ip_address>>
       /\ "success" \in DOMAIN result.out
       /\ ~AnsweredSuccess(result.net) =>
             /\ ~result.out.success
             /\ "reason" \in DOMAIN result.out
       /\ AnsweredSuccess(result.net) => result.out.success

\* the lookup of a public origin times out
C21_Witness ==
    /\ result.op = "get_location_from_ip"
    /\ result.ip_address = IP_public
    /\ result.net = [kind |-> "raise", error |-> "Timeout"]
    /\ result.http = <<IP_public>>
    /\ ~result.out.success
    /\ result.out.reason = [msg |-> "Location lookup failed", error |-> "Timeout"]

EngineOps ==
    {"check_user_permission", "check_time_based_access",
     "check_location_based_access", "verify_access"}

\* C25: a step of check_user_permission, check_time_based_access,
\* check_location_based_access or verify_access leaves the policy store (the
\* set of policies and every field of each) and the audit log as they were,
\* whatever the result.
C25_EngineLeavesStores ==
    [][ result'.op \in EngineOps =>
          /\ DOMAIN files' = DOMAIN files
          /\ files' = files
          /\ audit_log' = audit_log ]_vars

\* verify_access has denied a request for a stored policy
C25_Witness ==
    /\ result.op = "verify_access"
    /\ result.file_id \in DOMAIN files
    /\ ~result.out.allowed
    /\ audit_log = <<>>

\* C26: verify_access makes an external lookup only when the identity gate and
\* the time gate of that call have both allowed; a call denied by the identity
\* gate or by the time gate makes none.
C26_LookupOnlyAfterIdentityAndTime ==
    IsVerify
    => /\ result.http # <<>> =>
             /\ Len(result.out.checks) = 3
             /\ result.out.checks[1].value.allowed
             /\ result.out.checks[2].value.allowed
       /\ ( /\ ~result.out.allowed
            /\ result.out.failed_check \in {"user_permission", "time_based"} )
          => result.http = <<>>

\* a request from a public origin is denied by the time gate without a lookup
C26_Witness ==
    /\ IsVerify
    /\ result.ip_address = IP_public
    /\ ~result.out.allowed
    /\ result.out.failed_check = "time_based"
    /\ result.http = <<>>

\* C22: verify_access returns a verdict with allowed = false, a failed_check
\* naming a gate and a denied_reason in each of the expected failure
\* conditions: no policy for the resource, a failed read of the policy store
\* (both denied by the identity gate as not found), identity not in the
\* allow-list, a window bound that is None or does not parse, time outside
\* the window, failure of the resolver (timeout, transport error, bad answer),
\* region not allowed.  Every call returns a verdict.
C22_ExpectedFailuresAreVerdicts ==
    IsVerify
    => LET out == result.out
           stored == ~files_torn /\ result.file_id \in DOMAIN files
           policy == files[result.file_id]
           denied(gates) ==
               /\ ~out.allowed
               /\ "failed_check" \in DOMAIN out
               /\ "denied_reason" \in DOMAIN out
               /\ out.failed_check \in gates
       IN  /\ {"allowed", "checks"} \subseteq DOMAIN out
           /\ ~out.allowed => denied({"user_permission", "time_based", "location_based"})
           /\ ~stored =>
                 denied({"user_permission"}) /\ out.denied_reason = FileNotFound
           /\ (stored /\ ~In(result.username, policy.allowed_users)) =>
                 denied({"user_permission"})
           /\ UnparseableWindow(result.file_id) =>
                 denied({"user_permission", "time_based"})
           /\ OutsideWindow(result.file_id, result.now) =>
                 denied({"user_permission", "time_based"})
           /\ (stored /\ ResolutionFails(result.ip_address, result.net)) =>
                 denied({"user_permission", "time_based", "location_based"})
           /\ ( /\ stored
                /\ ~ResolutionFails(result.ip_address, result.net)
                /\ ~In(ResolvedRegion(result.ip_address, result.net),
                       policy.allowed_regions) )
              => denied({"user_permission", "time_based", "location_based"})

\* the read of the policy store fails and the verdict is a not-found denial
C22_Witness ==
    /\ IsVerify
    /\ files_torn
    /\ ~result.out.allowed
    /\ result.out.failed_check = "user_permission"
    /\ result.out.denied_reason = FileNotFound

\* the stored entries a summary for this identity scans
Scanned(username) ==
    {i \in 1..Len(audit_log) : username = NoneStr \/ audit_log[i].username = username}

\* how many of the scanned entries have one of these event types
CountOf(username, types) ==
    Cardinality({i \in Scanned(username) : audit_log[i].event_type \in types})

RECURSIVE SumCounts(_, _)
SumCounts(f, S) ==
    IF S = {} THEN 0
    ELSE LET t == CHOOSE x \in S : TRUE IN f[t] + SumCounts(f, S \ {t})

\* C23: the counts of get_security_summary are exact over the entries it
\* scans (all stored entries, or those of the given identity): total_events
\* = successful_events + failed_events = the sum of the per-type counts;
\* access_denied, uploads, downloads count the ACCESS_DENIED, FILE_UPLOAD,
\* FILE_DOWNLOAD entries; login_attempts counts LOGIN_SUCCESS and
\* LOGIN_FAILED entries; failed_logins counts LOGIN_FAILED entries.
C23_SummaryCountsExact ==
    (result # NoResult /\ result.op = "get_security_summary")
    => LET summary == result.out
           u == result.username
       IN  /\ summary.total_events = Cardinality(Scanned(u))
           /\ summary.total_events = summary.successful_events + summary.failed_events
           /\ summary.successful_events =
                 Cardinality({i \in Scanned(u) : audit_log[i].success})
           /\ summary.total_events =
                 SumCounts(summary.event_types, DOMAIN summary.event_types)
           /\ \A t \in DOMAIN summary.event_types :
                 summary.event_types[t] = CountOf(u, {t})
           /\ summary.access_denied = CountOf(u, {"ACCESS_DENIED"})
           /\ summary.uploads = CountOf(u, {"FILE_UPLOAD"})
           /\ summary.downloads = CountOf(u, {"FILE_DOWNLOAD"})
           /\ summary.login_attempts = CountOf(u, {"LOGIN_SUCCESS", "LOGIN_FAILED"})
           /\ summary.failed_logins = CountOf(u, {"LOGIN_FAILED"})

\* a summary over a log holding successes and failures of several types
C23_Witness ==
    /\ result # NoResult
    /\ result.op = "get_security_summary"
    /\ result.username = NoneStr
    /\ result.out.access_denied >= 1
    /\ result.out.uploads >= 1
    /\ result.out.failed_logins >= 1
    /\ result.out.login_attempts > result.out.failed_logins
    /\ result.out.total_events = LogCap

\* an access_times argument that holds both bounds
WindowGiven(given) ==
    "access_times" \in DOMAIN given /\ {"start", "end"} \subseteq DOMAIN given.access_times

\* C29: update_file_access replaces exactly the fields the call supplies:
\* allowed identities, the window (start and end together) and the allowed
\* regions are each replaced when given and kept when omitted; the owner, the
\* other fields of the policy and every other policy are unchanged.  For a
\* resource id without a policy it returns failure and the store is unchanged.
C29_UpdateReplacesOnlySupplied ==
    (result # NoResult /\ result.op = "update_file_access")
    => LET before == result.before
           given == result.given
           f == result.file_id
       IN  IF f \notin DOMAIN before
           THEN /\ "success" \in DOMAIN result.out
                /\ ~result.out.success
                /\ files = before
           ELSE IF "access_times" \in DOMAIN given /\ ~WindowGiven(given)
           THEN files = before
           ELSE /\ "success" \in DOMAIN result.out
                /\ result.out.success
                /\ DOMAIN files = DOMAIN before
                /\ \A g \in DOMAIN before \ {f} : files[g] = before[g]
                /\ DOMAIN files[f] = DOMAIN before[f]
                /\ \A k \in DOMAIN before[f] \
                        {"allowed_users", "access_start_time", "access_end_time",
                         "allowed_regions"} :
                      files[f][k] = before[f][k]
                /\ files[f].allowed_users =
                      IF "allowed_users" \in DOMAIN given
                      THEN given.allowed_users ELSE before[f].allowed_users
                /\ files[f].access_start_time =
                      IF WindowGiven(given)
                      THEN given.access_times.start ELSE before[f].access_start_time
                /\ files[f].access_end_time =
                      IF WindowGiven(given)
                      THEN given.access_times.end ELSE before[f].access_end_time
                /\ files[f].allowed_regions =
                      IF "allowed_regions" \in DOMAIN given
                      THEN given.allowed_regions ELSE before[f].allowed_regions

\* one of two policies gets a new allow-list and keeps the window and the
\* regions it was created with, which are not the defaults
C29_Witness ==
    /\ result # NoResult
    /\ result.op = "update_file_access"
    /\ "success" \in DOMAIN result.out
    /\ result.out.success
    /\ DOMAIN result.given = {"allowed_users"}
    /\ Cardinality(DOMAIN files) = 2
    /\ files[result.file_id] # result.before[result.file_id]
    /\ files[result.file_id].access_start_time = WindowNight.start
    /\ files[result.file_id].allowed_regions = <<"US">>

\* C30: a share or delete request changes or deletes a policy only when the
\* requester is the owner the policy has when the endpoint checks it; a
\* request by anyone else, allowed identities included, is rejected, the
\* policy store is unchanged and no PERMISSION_CHANGE or FILE_DELETE event is
\* recorded.
C30_OnlyOwnerSharesOrDeletes ==
    [][ ( /\ result = NoResult
          /\ result' # NoResult
          /\ result'.op \in {"share_file", "delete_file"}
          /\ \/ result'.file_id \notin DOMAIN files
             \/ files[result'.file_id].owner # result'.current_user )
        => /\ files' = files
           /\ audit_log' = audit_log
           /\ recorded' = recorded
           /\ ~result'.out.success
           /\ result'.out.status \in {403, 404} ]_vars

\* an allowed identity that is not the owner was refused by the share endpoint
C30_Witness ==
    /\ result # NoResult
    /\ result.op = "share_file"
    /\ result.file_id \in DOMAIN result.before
    /\ result.before[result.file_id].owner # result.current_user
    /\ In(result.current_user, result.before[result.file_id].allowed_users)
    /\ DOMAIN result.data # {}
    /\ result.out.status = 403
    /\ files = result.before

\* someone who is not the owner was refused by the delete endpoint
C30_WitnessDelete ==
    /\ result # NoResult
    /\ result.op = "delete_file"
    /\ result.file_id \in DOMAIN result.before
    /\ result.before[result.file_id].owner # result.current_user
    /\ result.s3_deleted
    /\ result.out.status = 403
    /\ result.file_id \in DOMAIN files

(***************************************************************************)
(* app.py : the upload endpoint.  Form values and file names are strings   *)
(* read character by character; the names parsed out of them are joined    *)
(* back into strings.                                                      *)
(***************************************************************************)
Whitespace == {" ", "\t", "\n"}

\* str.strip()
RECURSIVE lstrip(_)
lstrip(s) == IF s # <<>> /\ Head(s) \in Whitespace THEN lstrip(Tail(s)) ELSE s

strip(s) == reversed(lstrip(reversed(lstrip(s))))

\* str.split(sep) for a separator of one character: always at least one
\* piece, empty pieces kept
RECURSIVE split(_, _)
split(s, sep) ==
    IF \A i \in 1..Len(s) : s[i] # sep THEN <<s>>
    ELSE LET i == CHOOSE j \in 1..Len(s) :
                      s[j] = sep /\ \A k \in 1..(j - 1) : s[k] # sep
         IN  <<SubSeq(s, 1, i - 1)>> \o split(SubSeq(s, i + 1, Len(s)), sep)

\* the characters of a str as one string value
RECURSIVE str(_)
str(s) == IF s = <<>> THEN "" ELSE Head(s) \o str(Tail(s))

\* [u.strip() for u in value.split(',') if u.strip()]
comma_list(value) ==
    LET pieces == split(value, ",")
        kept == SelectSeq(pieces, LAMBDA u : strip(u) # <<>>)
    IN  [i \in 1..Len(kept) |-> str(strip(kept[i]))]

\* mutant: the parsed list is used as the form gave it
allowed_users_list_as_given(allowed_users, current_user) ==
    comma_list(allowed_users)

\* the allow-list the upload builds from the form value
allowed_users_list(allowed_users, current_user) ==
    LET parsed == comma_list(allowed_users)
    IN  IF ~In(current_user, parsed) THEN <<current_user>> \o parsed ELSE parsed

UpperCase == <<"A", "D", "E", "F", "G", "I", "J", "N", "O", "P", "T", "X", "Z">>

LowerCase == <<"a", "d", "e", "f", "g", "i", "j", "n", "o", "p", "t", "x", "z">>

\* str.lower() on the letters the file names here are written with
lower(s) ==
    [i \in 1..Len(s) |->
        IF In(s[i], UpperCase)
        THEN LowerCase[CHOOSE k \in 1..Len(UpperCase) : UpperCase[k] = s[i]]
        ELSE s[i]]

\* filename.rsplit('.', 1)[1] of a name that holds a '.'
after_last_dot(filename) ==
    LET i == CHOOSE j \in 1..Len(filename) :
                 filename[j] = "." /\ \A k \in (j + 1)..Len(filename) : filename[k] # "."
    IN  SubSeq(filename, i + 1, Len(filename))

\* the characters of the user names
UserChars ==
    [alice |-> <<"a", "l", "i", "c", "e">>, bob |-> <<"b", "o", "b">>]

ALLOWED_EXTENSIONS ==
    {"txt", "pdf", "png", "jpg", "jpeg", "gif", "doc", "docx", "xlsx", "zip"}

MAX_FILE_SIZE == 52428800

allowed_file(filename) ==
    /\ In(".", filename)
    /\ str(lower(after_last_dot(filename))) \in ALLOWED_EXTENSIONS

log_upload(timestamp, username, file_id, filename, size, ip_address) ==
    log_entry(timestamp, "FILE_UPLOAD", username, file_id,
              [filename |-> filename, size |-> size,
               action |-> "File uploaded and encrypted"],
              ip_address, TRUE)

\* request: [file |-> None or [filename, size], form |-> the form fields sent]
\* encrypts: encryptor.encrypt_file succeeded
\* s3: what aws_handler.upload_file returned; its s3_key becomes the file id
\* The defaults of the form fields are those of an environment that sets none
\* of DEFAULT_ACCESS_START_TIME, DEFAULT_ACCESS_END_TIME, ALLOWED_REGIONS.
\* secure_filename leaves the names used here as they are.
upload_file(fs, audit_logs, timestamp, current_user, request, encrypts, s3) ==
    LET form == request.form
        file == request.file
        allowed_users == dict_get(form, "allowed_users", UserChars[current_user])
        users_list == allowed_users_list(allowed_users, current_user)
        access_start_time == dict_get(form, "access_start_time", T0900)
        access_end_time == dict_get(form, "access_end_time", T1800)
        regions_list == IF "allowed_regions" \in DOMAIN form
                        THEN comma_list(form.allowed_regions)
                        ELSE DefaultRegions
        original_filename == str(file.filename)
        file_id == s3.s3_key
        saved == save_file_metadata(fs, file_id, current_user, original_filename,
                     [access_start_time |-> access_start_time,
                      access_end_time |-> access_end_time,
                      allowed_regions |-> regions_list])
        updated == update_file_access(saved.files, file_id,
                                      [allowed_users |-> users_list])
        entry == log_upload(timestamp, current_user, file_id, original_filename,
                            file.size, ClientIp)
        refused(status, message) ==
            [files |-> fs, audit_log |-> audit_logs, logged |-> <<>>,
             out |-> [status |-> status, success |-> FALSE, message |-> message]]
    IN  IF file = None THEN refused(400, "No file provided")
        ELSE IF file.filename = <<>> THEN refused(400, "No file selected")
        ELSE IF dict_get(form, "password", <<>>) = <<>>
        THEN refused(400, "Password is required")
        ELSE IF ~allowed_file(file.filename) THEN refused(400, "File type not allowed")
        ELSE IF file.size > MAX_FILE_SIZE THEN refused(400, "File too large")
        ELSE IF ~encrypts THEN refused(500, "Encryption failed")
        ELSE IF ~s3.success THEN refused(500, "S3 upload failed")
        ELSE [files |-> updated.files,
              audit_log |-> log_event(audit_logs, entry),
              logged |-> <<entry>>,
              out |-> [status |-> 200, success |-> TRUE, file_id |-> file_id,
                       access_control |-> [allowed_users |-> users_list,
                                           allowed_regions |-> regions_list]]]

(***************************************************************************)
(* The upload endpoint and save_file_metadata as a state machine           *)
(***************************************************************************)
MaxUploads == 1

Chars_password == <<"p", "w">>

\* allowed_users form values: the owner named, not named, with blanks and
\* empty pieces, empty
AllowedUsersValues ==
    { <<"a", "l", "i", "c", "e">>,
      <<"b", "o", "b">>,
      <<" ", "b", "o", "b", " ", ",", ",", " ", "a", "l", "i", "c", "e">>,
      <<>>,
      <<",", " ">> }

UploadForms ==
    { [password |-> Chars_password] }
    \cup { [password |-> Chars_password, allowed_users |-> v] : v \in AllowedUsersValues }
    \cup { [password |-> Chars_password, allowed_users |-> <<"b", "o", "b">>,
            access_start_time |-> T2200, access_end_time |-> T0600,
            allowed_regions |-> <<"U", "S", ",", " ", "I", "N">>] }

FileTxt == [filename |-> <<"a", ".", "T", "X", "T">>, size |-> 1]

UploadRequests ==
    { [file |-> FileTxt, form |-> form] : form \in UploadForms }
    \cup { [file |-> None, form |-> [password |-> Chars_password]],
           [file |-> [filename |-> <<>>, size |-> 0],
            form |-> [password |-> Chars_password]],
           [file |-> FileTxt, form |-> <<>>],
           [file |-> [filename |-> <<"a", ".", "e", "x", "e">>, size |-> 1],
            form |-> [password |-> Chars_password]],
           [file |-> [filename |-> <<"a", "t", "x", "t">>, size |-> 1],
            form |-> [password |-> Chars_password]],
           [file |-> [filename |-> <<"a", ".", "t", "x", "t">>,
                      size |-> MAX_FILE_SIZE + 1],
            form |-> [password |-> Chars_password]] }

S3UploadOutcomes ==
    { [success |-> FALSE] } \cup { [success |-> TRUE, s3_key |-> f] : f \in FileIds }

InitUpload ==
    /\ files = <<>>
    /\ audit_log = <<>>
    /\ recorded = <<>>
    /\ result = NoResult
    /\ calls = [t \in Threads |-> Idle]
    /\ torn = FALSE
    /\ files_torn = FALSE

UploadFile ==
    /\ result = NoResult
    /\ Len(recorded) < MaxUploads
    /\ \E current_user \in Users, request \in UploadRequests, encrypts \in BOOLEAN,
          s3 \in S3UploadOutcomes :
        \E r \in {upload_file(files, audit_log, Len(recorded) + 1, current_user,
                              request, encrypts, s3)} :
            /\ files' = r.files
            /\ audit_log' = r.audit_log
            /\ recorded' = recorded \o r.logged
            /\ result' = [op |-> "upload_file", current_user |-> current_user,
                          request |-> request, before |-> files, out |-> r.out]
            /\ UNCHANGED <<calls, torn, files_torn>>

NextUpload ==
    \/ Return
    \/ SaveFileMetadata
    \/ UploadFile

SpecUpload == InitUpload /\ [][NextUpload]_vars

\* C24: right after a policy is created its owner is one of its allowed
\* identities: after save_file_metadata, and after an upload (save_file_metadata
\* then update_file_access with the parsed list), whatever the allowed_users
\* form value is, one that does not name the owner included.
C24_OwnerAllowedAtCreation ==
    /\ (result # NoResult /\ result.op = "save_file_metadata" /\ result.out.success)
       => /\ result.file_id \in DOMAIN files
          /\ files[result.file_id].owner = result.owner
          /\ In(result.owner, files[result.file_id].allowed_users)
    /\ (result # NoResult /\ result.op = "upload_file" /\ result.out.success)
       => /\ result.out.file_id \in DOMAIN files
          /\ files[result.out.file_id].owner = result.current_user
          /\ In(result.current_user, files[result.out.file_id].allowed_users)

\* an upload whose allowed_users value names only somebody else created a
\* policy that allows both
C24_Witness ==
    /\ result # NoResult
    /\ result.op = "upload_file"
    /\ result.out.success
    /\ result.current_user = "alice"
    /\ "allowed_users" \in DOMAIN result.request.form
    /\ result.request.form.allowed_users = <<"b", "o", "b">>
    /\ files[result.out.file_id].allowed_users = <<"alice", "bob">>

(***************************************************************************)
(* database.py, access_control.py : the policy store under threads.  A     *)
(* write of the store is _read_json, the change in memory, open(filepath,  *)
(* 'w') which truncates files.json, then json.dump and close.  A           *)
(* verification is one step per gate; each gate reads files.json itself.   *)
(* Nothing serialises the steps of different threads.  Each thread makes   *)
(* one call and keeps what it returned.                                    *)
(***************************************************************************)
PolicyThreads == {"p1", "p2", "p3"}

PolicyStores ==
    LET p1 == Policy("alice", <<"alice", "bob">>,
                     [start |-> T0900, end |-> T1800], DefaultRegions)
        p2 == Policy("bob", <<"bob">>, [start |-> T0900, end |-> T1800], DefaultRegions)
    IN  { [f \in {"f1"} |-> p1],
          [f \in {"f1", "f2"} |-> IF f = "f1" THEN p1 ELSE p2] }

\* keyword arguments of the update_file_access calls
PolicyUpdates ==
    { [file_id |-> "f1", given |-> [allowed_users |-> <<"alice">>]],
      [file_id |-> "f1", given |-> [allowed_users |-> <<"alice", "bob">>]],
      [file_id |-> "f1", given |-> [access_times |-> WindowNight]],
      [file_id |-> "f2", given |-> [allowed_regions |-> <<"US">>]] }

\* the instant and the origin of the verifications: inside the default
\* window, from the server's own host
PolicyClock == time(10, 0, 0)

\* no lookup is made for that origin; this outcome is never consulted
PolicyNet == [kind |-> "raise", error |-> "Timeout"]

InitPolicy ==
    /\ files \in PolicyStores
    /\ audit_log = <<>>
    /\ recorded = <<>>
    /\ result = NoResult
    /\ calls = [t \in PolicyThreads |-> Idle]
    /\ torn = FALSE
    /\ files_torn = FALSE

\* what a write call does once its change is computed from the store it read:
\* it goes on to write, or returns without writing
AfterRead(call, r) ==
    IF "success" \in DOMAIN r.out /\ r.out.success
    THEN [pc |-> "open", store |-> r.files, out |-> r.out] @@ call
    ELSE [pc |-> "done", out |-> r.out] @@ call

\* update_file_access, lines 136-149
UpdateFileAccessRead(t) ==
    /\ calls[t] = Idle
    /\ \E u \in PolicyUpdates :
        \E r \in {update_file_access(read_json(files, files_torn).data,
                                     u.file_id, u.given)} :
            calls' = [calls EXCEPT ![t] =
                        AfterRead([op |-> "update_file_access",
                                   file_id |-> u.file_id, given |-> u.given], r)]
    /\ UNCHANGED <<files, audit_log, recorded, result, torn, files_torn>>

\* save_file_metadata, lines 111-122
SaveFileMetadataRead(t) ==
    /\ calls[t] = Idle
    /\ \E r \in {save_file_metadata(read_json(files, files_torn).data,
                                    "f2", "bob", "secret.txt", <<>>)} :
            calls' = [calls EXCEPT ![t] =
                        AfterRead([op |-> "save_file_metadata",
                                   file_id |-> "f2", owner |-> "bob"], r)]
    /\ UNCHANGED <<files, audit_log, recorded, result, torn, files_torn>>

\* delete_file_metadata, lines 176-181
DeleteFileMetadataRead(t) ==
    /\ calls[t] = Idle
    /\ \E file_id \in FileIds :
        \E r \in {delete_file_metadata(read_json(files, files_torn).data, file_id)} :
            calls' = [calls EXCEPT ![t] =
                        AfterRead([op |-> "delete_file_metadata",
                                   file_id |-> file_id], r)]
    /\ UNCHANGED <<files, audit_log, recorded, result, torn, files_torn>>

\* _write_json, line 47: open(filepath, 'w') truncates files.json
WriteJsonOpen(t) ==
    /\ calls[t].pc = "open"
    /\ calls' = [calls EXCEPT ![t].pc = "dump"]
    /\ files' = <<>>
    /\ files_torn' = TRUE
    /\ UNCHANGED <<audit_log, recorded, result, torn>>

\* _write_json, lines 48-49: json.dump and the close of the file; the call
\* then returns success.  When another writer has completed its content since
\* this writer opened the file, the file ends as this writer's document or as
\* a mix of the two that is no JSON document.
WriteJsonDump(t) ==
    /\ calls[t].pc = "dump"
    /\ \E overlaid \in (IF files_torn THEN {FALSE} ELSE BOOLEAN) :
          IF overlaid
          THEN files' = <<>> /\ files_torn' = TRUE
          ELSE files' = calls[t].store /\ files_torn' = FALSE
    /\ calls' = [calls EXCEPT ![t].pc = "done"]
    /\ UNCHANGED <<audit_log, recorded, result, torn>>

\* verify_access, lines 214-230: the call starts and runs the identity gate.
\* returned: the calls that had returned when this one started;
\* reads: what each gate got from get_file_metadata.
VerifyUserPermission(t) ==
    /\ calls[t] = Idle
    /\ \E username \in Users :
        \E user_check \in {check_user_permission(username, "f1")} :
            LET call == [op |-> "verify_access", username |-> username,
                         file_id |-> "f1", ip_address |-> IP_loopback,
                         now |-> PolicyClock,
                         returned |-> {u \in PolicyThreads : calls[u].pc = "done"},
                         reads |-> <<get_file_metadata("f1")>>,
                         checks |-> <<Check("user_permission", user_check)>>]
            IN  calls' = [calls EXCEPT ![t] =
                    IF ~user_check.allowed
                    THEN [pc |-> "done",
                          out |-> [allowed |-> FALSE,
                                   denied_reason |-> user_check.reason,
                                   failed_check |-> "user_permission"]] @@ call
                    ELSE [pc |-> "time"] @@ call]
    /\ UNCHANGED <<files, audit_log, recorded, result, torn, files_torn>>

\* verify_access, lines 232-239: the time gate
VerifyTimeBased(t) ==
    /\ calls[t].pc = "time"
    /\ \E time_check \in {check_time_based_access(calls[t].file_id, calls[t].now)} :
        LET call == [reads |-> Append(calls[t].reads,
                                      get_file_metadata(calls[t].file_id)),
                     checks |-> Append(calls[t].checks,
                                       Check("time_based", time_check))]
        IN  calls' = [calls EXCEPT ![t] =
                IF ~time_check.allowed
                THEN [pc |-> "done",
                      out |-> [allowed |-> FALSE,
                               denied_reason |-> time_check.reason,
                               failed_check |-> "time_based"]] @@ call @@ calls[t]
                ELSE [pc |-> "location"] @@ call @@ calls[t]]
    /\ UNCHANGED <<files, audit_log, recorded, result, torn, files_torn>>

\* verify_access, lines 241-255: the location gate and the verdict
VerifyLocationBased(t) ==
    /\ calls[t].pc = "location"
    /\ \E location \in {check_location_based_access(calls[t].file_id,
                            calls[t].ip_address, PolicyNet)} :
        LET call == [reads |-> Append(calls[t].reads,
                                      get_file_metadata(calls[t].file_id)),
                     checks |-> Append(calls[t].checks,
                                       Check("location_based", location.out))]
        IN  calls' = [calls EXCEPT ![t] =
                IF ~location.out.allowed
                THEN [pc |-> "done",
                      out |-> [allowed |-> FALSE,
                               denied_reason |-> location.out.reason,
                               failed_check |-> "location_based"]] @@ call @@ calls[t]
                ELSE [pc |-> "done",
                      out |-> [allowed |-> TRUE]] @@ call @@ calls[t]]
    /\ UNCHANGED <<files, audit_log, recorded, result, torn, files_torn>>

NextPolicy ==
    \E t \in PolicyThreads :
        \/ UpdateFileAccessRead(t)
        \/ SaveFileMetadataRead(t)
        \/ DeleteFileMetadataRead(t)
        \/ WriteJsonOpen(t)
        \/ WriteJsonDump(t)
        \/ VerifyUserPermission(t)
        \/ VerifyTimeBased(t)
        \/ VerifyLocationBased(t)

SpecPolicy == InitPolicy /\ [][NextPolicy]_vars

\* the call of thread t is a finished verification
VerifyDone(t) ==
    calls[t].pc = "done" /\ calls[t].op = "verify_access"

\* the call of thread t is an update_file_access that returned success and
\* took identity u out of the allowed identities of resource f
RemovedBy(t, u, f) ==
    /\ calls[t].pc = "done"
    /\ calls[t].op = "update_file_access"
    /\ calls[t].file_id = f
    /\ "allowed_users" \in DOMAIN calls[t].given
    /\ ~In(u, calls[t].given.allowed_users)
    /\ calls[t].out.success

\* thread t makes, at any time, a call that can put u back on f's list
ReAdds(t, u, f) ==
    /\ calls[t] # Idle
    /\ calls[t].file_id = f
    /\ \/ /\ calls[t].op = "update_file_access"
          /\ "allowed_users" \in DOMAIN calls[t].given
          /\ In(u, calls[t].given.allowed_users)
       \/ calls[t].op = "save_file_metadata" /\ calls[t].owner = u

\* thread t writes the policy store for resource f
WritesFor(t, f) ==
    /\ calls[t] # Idle
    /\ calls[t].op # "verify_access"
    /\ calls[t].file_id = f

\* C27: once an update_file_access that removes identity u from resource f
\* has returned success, no verify_access(u, f) that starts afterwards returns
\* allowed = true unless some update re-adds u, also when writes for other
\* resources run at the same time as the removing update.
C27_RevocationSurvivesConcurrentWrites ==
    \A tv \in PolicyThreads, tu \in PolicyThreads :
        ( /\ VerifyDone(tv)
          /\ tu \in calls[tv].returned
          /\ RemovedBy(tu, calls[tv].username, calls[tv].file_id)
          /\ \A t \in PolicyThreads :
                /\ ~ReAdds(t, calls[tv].username, calls[tv].file_id)
                /\ t # tu => ~WritesFor(t, calls[tv].file_id) )
        => ~calls[tv].out.allowed

\* the window of this policy version parses and holds the instant
AdmitsTime(policy, now) ==
    /\ strptime_HM(policy.access_start_time).ok
    /\ strptime_HM(policy.access_end_time).ok
    /\ strptime_HM(policy.access_start_time).time <= now
    /\ now <= strptime_HM(policy.access_end_time).time

\* C28: each gate of a verification decides on the policy version it read
\* itself: a verdict allowed = true means the identity is on the list of the
\* first version, the instant is in the window of the second and the region
\* is allowed by the third; when the policy is gone at the read of a later
\* gate the verdict is a denial naming that gate with the not-found reason.
C28_EachGateOnItsOwnRead ==
    \A t \in PolicyThreads :
        VerifyDone(t)
        => LET c == calls[t]
               n == Len(c.reads)
           IN  /\ Len(c.checks) = n
               /\ c.out.allowed =>
                    /\ n = 3
                    /\ \A i \in 1..3 : c.reads[i] # None
                    /\ In(c.username, c.reads[1].allowed_users)
                    /\ AdmitsTime(c.reads[2], c.now)
                    /\ In(ResolvedRegion(c.ip_address, PolicyNet),
                          c.reads[3].allowed_regions)
               /\ ~c.out.allowed => c.out.failed_check = GateNames[n]
               /\ (n >= 2 /\ c.reads[n] = None) =>
                    /\ ~c.out.allowed
                    /\ c.out.failed_check = GateNames[n]
                    /\ c.out.denied_reason = FileNotFound
               /\ (n >= 2 /\ c.reads[2] # None /\ ~AdmitsTime(c.reads[2], c.now)) =>
                    /\ ~c.out.allowed
                    /\ c.out.failed_check = "time_based"

\* the policy was deleted by another thread after the identity gate passed
C28_Witness ==
    \E t \in PolicyThreads, d \in PolicyThreads :
        /\ VerifyDone(t)
        /\ Len(calls[t].reads) = 2
        /\ calls[t].reads[1] # None
        /\ calls[t].reads[2] = None
        /\ calls[t].out.failed_check = "time_based"
        /\ calls[d].pc = "done"
        /\ calls[d].op = "delete_file_metadata"
        /\ calls[d].file_id = calls[t].file_id
        /\ calls[d].out.success
        /\ ~files_torn

\* the window was changed between the identity gate and the time gate
C28_WitnessUpdate ==
    \E t \in PolicyThreads :
        /\ VerifyDone(t)
        /\ Len(calls[t].reads) = 2
        /\ calls[t].reads[1] # None
        /\ calls[t].reads[2] # None
        /\ calls[t].reads[1].access_start_time # calls[t].reads[2].access_start_time
        /\ calls[t].out.failed_check = "time_based"

====
